---- MODULE Spec2Model ----
(***************************************************************************)
(* Command Dispatch Core of the voice assistant: the CommandRegistry of    *)
(* voice_assistant/commands/base.py (wake-word gate, ordered handler list, *)
(* first-match selection, execute with error wrapping, listing).           *)
(*                                                                         *)
(* Strings are sequences of one-character strings, so that lower(),        *)
(* strip(), startswith() and `in` are computed character by character.     *)
(***************************************************************************)
EXTENDS Integers, Sequences, FiniteSets

(***************************************************************************)
(* Bounds.                                                                 *)
(***************************************************************************)
\* At most MaxGap spaces stand between the two words of an utterance.
MaxGap == 1
\* register is enabled while the registry holds fewer than MaxHandlers.
MaxHandlers == 2

(***************************************************************************)
(* String literals used by the model.                                      *)
(***************************************************************************)
S_space == <<" ">>
S_peter == <<"p", "e", "t", "e", "r">>
S_PETER == <<"P", "E", "T", "E", "R">>
S_pet == <<"p", "e", "t">>
S_lampu == <<"l", "a", "m", "p", "u">>
S_Lampu_Nyala == <<"L", "a", "m", "p", "u", " ", "N", "y", "a", "l", "a">>
S_lampu_nyala == <<"l", "a", "m", "p", "u", " ", "n", "y", "a", "l", "a">>
S_buka_youtube == <<"b", "u", "k", "a", " ", "y", "o", "u", "t", "u", "b", "e">>
S_cari_di_google == <<"c", "a", "r", "i", " ", "d", "i", " ", "g", "o", "o", "g", "l", "e">>
S_buka_website == <<"b", "u", "k", "a", " ", "w", "e", "b", "s", "i", "t", "e">>
S_matikan_komputer == <<"m", "a", "t", "i", "k", "a", "n", " ", "k", "o", "m",
    "p", "u", "t", "e", "r">>
S_tutup_semua_aplikasi == <<"t", "u", "t", "u", "p", " ", "s", "e", "m", "u",
    "a", " ", "a", "p", "l", "i", "k", "a", "s", "i">>
S_timer == <<"t", "i", "m", "e", "r">>
S_menit == <<"m", "e", "n", "i", "t">>
S_jalankan_aplikasi == <<"j", "a", "l", "a", "n", "k", "a", "n", " ", "a", "p",
    "l", "i", "k", "a", "s", "i">>
S_nyalakan_lampu == <<"n", "y", "a", "l", "a", "k", "a", "n", " ", "l", "a",
    "m", "p", "u">>
S_hidupkan_lampu == <<"h", "i", "d", "u", "p", "k", "a", "n", " ", "l", "a",
    "m", "p", "u">>
S_matikan_lampu == <<"m", "a", "t", "i", "k", "a", "n", " ", "l", "a", "m",
    "p", "u">>
S_tutup_lampu == <<"t", "u", "t", "u", "p", " ", "l", "a", "m", "p", "u">>
S_ambil_screenshot == <<"a", "m", "b", "i", "l", " ", "s", "c", "r", "e", "e",
    "n", "s", "h", "o", "t">>
S_screenshot == <<"s", "c", "r", "e", "e", "n", "s", "h", "o", "t">>
S_tangkap_layar == <<"t", "a", "n", "g", "k", "a", "p", " ", "l", "a", "y",
    "a", "r">>
S_timer_menit_matikan_komputer == <<"t", "i", "m", "e", "r", " ", "*", " ",
    "m", "e", "n", "i", "t", " ", "m", "a", "t", "i", "k", "a", "n", " ", "k",
    "o", "m", "p", "u", "t", "e", "r">>

\* n spaces
Pad(n) == [i \in 1..n |-> " "]

\* Utterances: optional surrounding whitespace, a first word (nothing, the
\* wake word in two casings, a proper prefix of it, or a command word), a gap
\* and a second word (nothing, a command phrase, or the wake word).
Margins == {<<>>, S_space}
FirstWords == {<<>>, S_peter, S_PETER, S_pet, S_lampu}
SecondWords == {<<>>, S_lampu, S_Lampu_Nyala, S_peter}

Texts ==
    {lead \o first \o Pad(gap) \o second \o trail :
        lead \in Margins, first \in FirstWords, gap \in 0..MaxGap,
        second \in SecondWords, trail \in Margins}

(***************************************************************************)
(* Python str operations.                                                  *)
(***************************************************************************)
\* str.isspace() characters that strip() removes.
Whitespace == {" ", "\t", "\n", "\r"}

LowerChar(c) ==
    CASE c = "P" -> "p"
      [] c = "E" -> "e"
      [] c = "T" -> "t"
      [] c = "R" -> "r"
      [] c = "L" -> "l"
      [] c = "N" -> "n"
      [] c = "I" -> "i"
      [] c = "M" -> "m"
      [] OTHER -> c

\* str.lower()
Lower(s) == [i \in 1..Len(s) |-> LowerChar(s[i])]

RECURSIVE LStrip(_)
LStrip(s) ==
    IF s # <<>> /\ Head(s) \in Whitespace THEN LStrip(Tail(s)) ELSE s

RECURSIVE RStrip(_)
RStrip(s) ==
    IF s # <<>> /\ s[Len(s)] \in Whitespace
    THEN RStrip(SubSeq(s, 1, Len(s) - 1))
    ELSE s

\* str.strip()
Strip(s) == RStrip(LStrip(s))

\* s.startswith(p)
StartsWith(s, p) == Len(p) <= Len(s) /\ SubSeq(s, 1, Len(p)) = p

\* p in s
Contains(s, p) ==
    \E i \in 0..Len(s) : i + Len(p) <= Len(s) /\ SubSeq(s, i + 1, i + Len(p)) = p

(***************************************************************************)
(* Handlers (Command objects).                                             *)
(***************************************************************************)
\* H1 and H2 are substring-matching handlers of two classes, Mock is the
\* unittest Mock of the tests, whose can_handle returns True for everything.
Handlers == {"H1", "H2", "Mock"}

None == "None"

\* cmd_handler.__class__.__name__
ClassName(h) ==
    CASE h = "H1" -> "LampCommand"
      [] h = "H2" -> "LampOnCommand"
      [] h = "Mock" -> "MockCommand"
      [] h = "Browser" -> "BrowserCommand"
      [] h = "System" -> "SystemControlCommand"
      [] h = "App" -> "ApplicationCommand"
      [] h \in {"Device", "DeviceNoTuya"} -> "SmartDeviceCommand"
      [] h = "Utility" -> "UtilityCommand"

\* The patterns list inside can_handle, by class.
MatchPatterns(h) ==
    CASE ClassName(h) = "LampCommand" -> {S_lampu}
      [] ClassName(h) = "LampOnCommand" -> {S_lampu_nyala}
      [] ClassName(h) = "BrowserCommand" ->
             {S_buka_youtube, S_cari_di_google, S_buka_website}
      [] ClassName(h) = "SystemControlCommand" ->
             {S_matikan_komputer, S_tutup_semua_aplikasi, S_timer, S_menit}
      [] ClassName(h) = "ApplicationCommand" -> {S_jalankan_aplikasi}
      [] h = "Device" ->
             {S_nyalakan_lampu, S_hidupkan_lampu, S_matikan_lampu, S_tutup_lampu}
      [] ClassName(h) = "UtilityCommand" ->
             {S_ambil_screenshot, S_screenshot, S_tangkap_layar}
      [] OTHER -> {}

\* Command.can_handle: any(pattern in command.lower() for pattern in patterns);
\* the Mock's can_handle.return_value is True.
can_handle(h, command) ==
    IF h = "Mock"
    THEN TRUE
    ELSE \E pattern \in MatchPatterns(h) : Contains(Lower(command), pattern)

\* Command.command_patterns: the advertised patterns, a list.
command_patterns(h) ==
    CASE ClassName(h) = "LampCommand" -> <<S_lampu>>
      [] ClassName(h) = "LampOnCommand" -> <<S_lampu_nyala, S_lampu>>
      [] ClassName(h) = "BrowserCommand" ->
             <<S_buka_youtube, S_cari_di_google \o <<" ", "*">>,
               S_buka_website \o <<" ", "*">>>>
      [] ClassName(h) = "SystemControlCommand" ->
             <<S_matikan_komputer, S_tutup_semua_aplikasi,
               S_timer_menit_matikan_komputer>>
      [] ClassName(h) = "ApplicationCommand" ->
             <<S_jalankan_aplikasi \o <<" ", "*">>>>
      [] ClassName(h) = "SmartDeviceCommand" ->
             <<S_nyalakan_lampu, S_hidupkan_lampu, S_matikan_lampu, S_tutup_lampu>>
      [] ClassName(h) = "UtilityCommand" ->
             <<S_ambil_screenshot, S_screenshot, S_tangkap_layar>>
      [] OTHER -> <<S_pet, S_lampu>>

\* Command.description
description(h) ==
    CASE ClassName(h) = "LampCommand" -> "Handle lamp commands"
      [] ClassName(h) = "LampOnCommand" -> "Handle lamp-on commands"
      [] ClassName(h) = "BrowserCommand" ->
             "Handle browser commands: open YouTube, Google search, open websites"
      [] ClassName(h) = "SystemControlCommand" ->
             "Handle system control commands: shutdown, close apps, timer shutdown"
      [] ClassName(h) = "ApplicationCommand" ->
             "Launch desktop applications by name"
      [] ClassName(h) = "SmartDeviceCommand" ->
             "Control smart devices: turn lights on/off using TinyTuya"
      [] ClassName(h) = "UtilityCommand" -> "Utility commands: take screenshots"
      [] OTHER -> "Test command"

\* The context argument of execute_command: omitted (None) or a mapping.
Contexts == {None, "ctx"}

\* What a call of Command.execute can do: return a result string, or raise.
\* The handlers' actions are external, so the outcome is chosen freely.
ExceptionTypes ==
    {"SystemCommandError", "ApplicationLaunchError", "DeviceConnectionError",
     "CommandExecutionError", "ValueError"}

\* str(e) of the exception a handler raises.
HandlerMessage(type) ==
    CASE type = "SystemCommandError" -> "Failed to execute system command"
      [] type = "ApplicationLaunchError" -> "Failed to execute application command"
      [] type = "DeviceConnectionError" -> "Failed to execute smart device command"
      [] type = "CommandExecutionError" -> "Failed to execute browser command"
      [] OTHER -> "invalid literal for int()"

\* No call of execute takes place.
NotCalled == [kind |-> "none"]

Outcomes ==
    [kind : {"return"}, value : {"YouTube opened", "Computer shutdown initiated"}]
    \cup {[kind |-> "raise", type |-> t, message |-> HandlerMessage(t)] :
              t \in ExceptionTypes}

(***************************************************************************)
(* CommandRegistry: pure parts of the methods.                             *)
(***************************************************************************)
\* The wake_word argument of CommandRegistry(...): the default, another
\* casing of it, and a shorter word.
DefaultWakeWord == S_peter
WakeWordArgs == {DefaultWakeWord, S_PETER, S_pet}

\* CommandRegistry.__init__: self.wake_word = wake_word.lower()
InitWakeWord(arg) == Lower(arg)

\* has_wake_word with a containment test in place of the prefix test.
has_wake_word_contains(ww, command) ==
    LET command_lower == Strip(Lower(command))
    IN  Contains(command_lower, ww)

\* CommandRegistry.has_wake_word
has_wake_word(ww, command) ==
    LET command_lower == Strip(Lower(command))
    IN  StartsWith(command_lower, ww)

\* remove_wake_word that leaves the whitespace after the wake word in place.
remove_wake_word_nostrip(ww, command) ==
    LET command_lower == Strip(Lower(command))
    IN  IF StartsWith(command_lower, ww)
        THEN SubSeq(command_lower, Len(ww) + 1, Len(command_lower))
        ELSE command_lower

\* CommandRegistry.remove_wake_word
remove_wake_word(ww, command) ==
    LET command_lower == Strip(Lower(command))
    IN  IF StartsWith(command_lower, ww)
        THEN Strip(SubSeq(command_lower, Len(ww) + 1, Len(command_lower)))
        ELSE command_lower

\* One call the registry makes on a handler, and what the handler did.
HandlerCall(method, h, command, context, outcome) ==
    [method |-> method, handler |-> h, command |-> command,
     context |-> context, outcome |-> outcome]

\* The loop of get_handler without the early return: the last handler that
\* accepts wins.
RECURSIVE ScanHandlers_last(_, _, _)
ScanHandlers_last(cmds, i, actual_command) ==
    IF i > Len(cmds)
    THEN [handler |-> None, calls |-> <<>>]
    ELSE LET accepts == can_handle(cmds[i], actual_command)
             call == HandlerCall("can_handle", cmds[i], actual_command, None,
                                 [kind |-> "return", value |-> accepts])
             rest == ScanHandlers_last(cmds, i + 1, actual_command)
         IN  [handler |-> IF accepts /\ rest.handler = None
                          THEN cmds[i]
                          ELSE rest.handler,
              calls |-> <<call>> \o rest.calls]

\* The loop of get_handler from position i on: the can_handle calls it makes
\* and the handler it returns.
RECURSIVE ScanHandlers(_, _, _)
ScanHandlers(cmds, i, actual_command) ==
    IF i > Len(cmds)
    THEN [handler |-> None, calls |-> <<>>]
    ELSE LET accepts == can_handle(cmds[i], actual_command)
             call == HandlerCall("can_handle", cmds[i], actual_command, None,
                                 [kind |-> "return", value |-> accepts])
         IN  IF accepts
             THEN [handler |-> cmds[i], calls |-> <<call>>]
             ELSE LET rest == ScanHandlers(cmds, i + 1, actual_command)
                  IN  [handler |-> rest.handler, calls |-> <<call>> \o rest.calls]

\* CommandRegistry.get_handler
get_handler(cmds, ww, command) ==
    IF ~has_wake_word(ww, command)
    THEN [handler |-> None, calls |-> <<>>]
    ELSE ScanHandlers(cmds, 1, remove_wake_word(ww, command))

\* A CommandExecutionError raised by the registry; fmt is the f-string, the
\* other fields are the values formatted into it.
DispatchError(fmt, ww, command, cause) ==
    [kind |-> "raise", type |-> "CommandExecutionError", fmt |-> fmt,
     wake_word |-> ww, command |-> command, cause |-> cause]

MissingWakeWordFmt == "Command must start with wake word '{self.wake_word}': {command}"
NoHandlerFmt == "No handler found for command: {command}"
WrappedFmt == "Failed to execute command: {e}"

\* No except clause: the handler's exception leaves execute_command as it is.
WrapFailure_raw(outcome) ==
    [kind |-> "raise", type |-> outcome.type, fmt |-> "{e}",
     wake_word |-> <<>>, command |-> <<>>, cause |-> outcome.message]

\* except Exception as e: raise CommandExecutionError(f"Failed to execute command: {e}")
WrapFailure(outcome) == DispatchError(WrappedFmt, <<>>, <<>>, outcome.message)

\* execute_command without its own wake-word check.
execute_command_nogate(cmds, ww, command, context, outcome) ==
    LET found == get_handler(cmds, ww, command)
    IN  IF found.handler = None
        THEN [result |-> DispatchError(NoHandlerFmt, <<>>, command, ""),
              calls |-> found.calls]
        ELSE LET actual_command == remove_wake_word(ww, command)
                 call == HandlerCall("execute", found.handler, actual_command,
                                     context, outcome)
             IN  [result |-> IF outcome.kind = "return"
                             THEN outcome
                             ELSE WrapFailure(outcome),
                  calls |-> found.calls \o <<call>>]

\* execute_command that hands the handler the text as given.
execute_command_rawtext(cmds, ww, command, context, outcome) ==
    IF ~has_wake_word(ww, command)
    THEN [result |-> DispatchError(MissingWakeWordFmt, ww, command, ""),
          calls |-> <<>>]
    ELSE LET found == get_handler(cmds, ww, command)
         IN  IF found.handler = None
             THEN [result |-> DispatchError(NoHandlerFmt, <<>>, command, ""),
                   calls |-> found.calls]
             ELSE LET call == HandlerCall("execute", found.handler, command,
                                          context, outcome)
                  IN  [result |-> IF outcome.kind = "return"
                                  THEN outcome
                                  ELSE WrapFailure(outcome),
                       calls |-> found.calls \o <<call>>]

\* CommandRegistry.execute_command; outcome is what handler.execute does if
\* it is called.
execute_command(cmds, ww, command, context, outcome) ==
    IF ~has_wake_word(ww, command)
    THEN [result |-> DispatchError(MissingWakeWordFmt, ww, command, ""),
          calls |-> <<>>]
    ELSE LET found == get_handler(cmds, ww, command)
         IN  IF found.handler = None
             THEN [result |-> DispatchError(NoHandlerFmt, <<>>, command, ""),
                   calls |-> found.calls]
             ELSE LET actual_command == remove_wake_word(ww, command)
                      call == HandlerCall("execute", found.handler, actual_command,
                                          context, outcome)
                  IN  [result |-> IF outcome.kind = "return"
                                  THEN outcome
                                  ELSE WrapFailure(outcome),
                       calls |-> found.calls \o <<call>>]

\* The patterns listed as the handler advertises them, without the wake word.
patterns_with_wake_word_bare(ww, h) == command_patterns(h)

\* patterns_with_wake_word of one handler: f"{self.wake_word} {pattern}"
patterns_with_wake_word(ww, h) ==
    [i \in 1..Len(command_patterns(h)) |-> ww \o S_space \o command_patterns(h)[i]]

\* The entry list_commands stores under a handler's class name.
CommandEntry(ww, h) ==
    [patterns |-> patterns_with_wake_word(ww, h),
     description |-> description(h),
     wake_word |-> ww]

\* CommandRegistry.list_commands: a dict filled in registration order, a later
\* handler of the same class name overwriting the earlier entry.
list_commands(cmds, ww) ==
    LET names == {ClassName(cmds[i]) : i \in 1..Len(cmds)}
        lastOf(n) == CHOOSE i \in 1..Len(cmds) :
                        /\ ClassName(cmds[i]) = n
                        /\ \A j \in (i + 1)..Len(cmds) : ClassName(cmds[j]) # n
    IN  [n \in names |-> CommandEntry(ww, cmds[lastOf(n)])]

\* list.remove(x): removes the first element equal to x.
RECURSIVE ListRemove(_, _)
ListRemove(l, x) ==
    IF l = <<>> THEN <<>>
    ELSE IF Head(l) = x THEN Tail(l)
    ELSE <<Head(l)>> \o ListRemove(Tail(l), x)

\* x in list
InList(x, l) == \E i \in 1..Len(l) : l[i] = x

\* unregister with the membership test inverted.
unregister_inverted(cmds, command) ==
    IF ~InList(command, cmds) THEN ListRemove(cmds, command) ELSE cmds

\* CommandRegistry.unregister on the handler list.
unregister(cmds, command) ==
    IF InList(command, cmds) THEN ListRemove(cmds, command) ELSE cmds

\* CommandRegistry.register on the handler list.
register(cmds, command) == Append(cmds, command)

(***************************************************************************)
(* State.  The registry is called synchronously: a caller invokes one      *)
(* method, receives what it returns or raises, and goes on.                *)
(***************************************************************************)
VARIABLES
    wake_word,       \* self.wake_word
    commands,        \* self._commands
    prev_commands,   \* self._commands as it was before the last call
    last             \* the last call on the registry: its arguments, what it
                     \* returned or raised, and the handler calls it made

\* The configuration manager and its file (config/settings.py).
VARIABLES
    config_file,     \* what is stored at ConfigManager.config_path
    manager_config,  \* ConfigManager._config
    config_call      \* the last call on the configuration classes

\* The browser of the machine (webbrowser.open in browser_commands.py).
VARIABLES
    opened           \* per execute_command, the URLs passed to webbrowser.open

\* The orchestrator (core/assistant.py) and the threads around it.
VARIABLES
    running,         \* self.running
    main_thread,     \* self._main_thread
    callers,         \* the threads that call start, start_async and stop
    loops,           \* where each execution of _run_main_loop stands
    workers          \* the command threads

\* The system-control handler's deferred shutdown (system_commands.py).
VARIABLES
    shutdown_timer,  \* SystemControlCommand.shutdown_timer
    timers,          \* the threading.Timer objects made so far
    schedulers       \* the command threads inside the handler's timer methods

config_vars == <<config_file, manager_config, config_call>>

browser_vars == <<opened>>

assistant_vars == <<running, main_thread, callers, loops, workers>>

timer_vars == <<shutdown_timer, timers, schedulers>>

\* What the registry's methods never touch.
elsewhere == <<config_vars, browser_vars, assistant_vars, timer_vars>>

vars == <<wake_word, commands, prev_commands, last, elsewhere>>

\* No ConfigManager has been constructed and no file has been written.
Absent == [kind |-> "absent"]

Unbuilt == [state |-> "unbuilt"]

NoConfigCall == [op |-> "none"]

NoConfig ==
    /\ config_file = Absent
    /\ manager_config = Unbuilt
    /\ config_call = NoConfigCall

\* No command has been executed with the browser handler at hand.
NoBrowser == opened = <<>>

\* self._main_thread = None
NoThread == 0

\* No VoiceAssistant has been created.
NoAssistant ==
    /\ running = FALSE
    /\ main_thread = NoThread
    /\ callers = <<>>
    /\ loops = <<>>
    /\ workers = <<>>

\* self.shutdown_timer = None
NoTimer == 0

\* No system-control handler has been created.
NoShutdownTimer ==
    /\ shutdown_timer = NoTimer
    /\ timers = <<>>
    /\ schedulers = <<>>

Returned(v) == [kind |-> "return", value |-> v]

Call(op, h, command, context, result, calls) ==
    [op |-> op, handler |-> h, command |-> command, context |-> context,
     result |-> result, calls |-> calls]

NoCall == Call("none", None, <<>>, None, Returned(None), <<>>)

\* The methods that return a value computed from the registry.
Queries ==
    {"has_wake_word", "remove_wake_word", "get_handler", "execute_command",
     "list_commands"}

\* The caller is done with the previous call.
Idle == last.op = "none"

\* register and unregister return nothing to look at: the caller may follow
\* one with another straight away.
MayMutate == last.op \notin Queries

Init ==
    /\ \E arg \in WakeWordArgs : wake_word = InitWakeWord(arg)
    /\ commands = <<>>
    /\ prev_commands = <<>>
    /\ last = NoCall
    /\ NoConfig
    /\ NoBrowser
    /\ NoShutdownTimer
    /\ NoAssistant

Register(h) ==
    /\ MayMutate
    /\ Len(commands) < MaxHandlers
    /\ commands' = register(commands, h)
    /\ prev_commands' = commands
    /\ last' = Call("register", h, <<>>, None, Returned(None), <<>>)
    /\ UNCHANGED <<wake_word, elsewhere>>

Unregister(h) ==
    /\ MayMutate
    /\ commands' = unregister(commands, h)
    /\ prev_commands' = commands
    /\ last' = Call("unregister", h, <<>>, None, Returned(None), <<>>)
    /\ UNCHANGED <<wake_word, elsewhere>>

HasWakeWord(t) ==
    /\ Idle
    /\ last' = Call("has_wake_word", None, t, None,
                    Returned(has_wake_word(wake_word, t)), <<>>)
    /\ prev_commands' = commands
    /\ UNCHANGED <<wake_word, commands, elsewhere>>

RemoveWakeWord(t) ==
    /\ Idle
    /\ last' = Call("remove_wake_word", None, t, None,
                    Returned(remove_wake_word(wake_word, t)), <<>>)
    /\ prev_commands' = commands
    /\ UNCHANGED <<wake_word, commands, elsewhere>>

\* The caller passes the string remove_wake_word returned to it again.
RemoveWakeWordAgain ==
    /\ last.op = "remove_wake_word"
    /\ last' = Call("remove_wake_word", None, last.result.value, None,
                    Returned(remove_wake_word(wake_word, last.result.value)), <<>>)
    /\ prev_commands' = commands
    /\ UNCHANGED <<wake_word, commands, elsewhere>>

GetHandler(t) ==
    /\ Idle
    /\ LET found == get_handler(commands, wake_word, t)
       IN  last' = Call("get_handler", None, t, None,
                        Returned(found.handler), found.calls)
    /\ prev_commands' = commands
    /\ UNCHANGED <<wake_word, commands, elsewhere>>

\* handler.execute is reached only when the gate passes and a handler is
\* selected; otherwise there is no outcome to choose.
ExecuteOutcomes(cmds, ww, command) ==
    IF get_handler(cmds, ww, command).handler = None
    THEN {NotCalled}
    ELSE Outcomes

ExecuteCommand(t, context) ==
    /\ Idle
    /\ \E outcome \in ExecuteOutcomes(commands, wake_word, t) :
          LET run == execute_command(commands, wake_word, t, context, outcome)
          IN  last' = Call("execute_command", None, t, context,
                           run.result, run.calls)
    /\ prev_commands' = commands
    /\ UNCHANGED <<wake_word, commands, elsewhere>>

ListCommands ==
    /\ Idle
    /\ last' = Call("list_commands", None, <<>>, None,
                    Returned(list_commands(commands, wake_word)), <<>>)
    /\ prev_commands' = commands
    /\ UNCHANGED <<wake_word, commands, elsewhere>>

\* The caller is done with the call (it has logged the result, or handled
\* the exception).
Consume ==
    /\ ~Idle
    /\ last' = NoCall
    /\ prev_commands' = commands
    /\ UNCHANGED <<wake_word, commands, elsewhere>>

Next ==
    \/ \E h \in Handlers : Register(h)
    \/ \E h \in Handlers : Unregister(h)
    \/ \E t \in Texts : HasWakeWord(t)
    \/ \E t \in Texts : RemoveWakeWord(t)
    \/ RemoveWakeWordAgain
    \/ \E t \in Texts : GetHandler(t)
    \/ \E t \in Texts, context \in Contexts : ExecuteCommand(t, context)
    \/ ListCommands
    \/ Consume

Spec == Init /\ [][Next]_vars

(***************************************************************************)
(* Vocabulary of the properties, stated on strings directly and not        *)
(* through the registry's methods.                                         *)
(***************************************************************************)
\* s with every letter case-folded.
Folded(s) == [i \in 1..Len(s) |-> LowerChar(s[i])]

\* s without its leading and trailing whitespace.
Trimmed(s) ==
    LET solid == {i \in 1..Len(s) : s[i] \notin Whitespace}
    IN  IF solid = {}
        THEN <<>>
        ELSE LET lo == CHOOSE i \in solid : \A j \in solid : i <= j
                 hi == CHOOSE i \in solid : \A j \in solid : j <= i
             IN  [k \in 1..(hi - lo + 1) |-> s[lo + k - 1]]

\* p is an initial segment of s.
IsPrefixOf(p, s) == \E n \in 0..Len(s) : p = [k \in 1..n |-> s[k]]

\* The text starts with the configured wake word, case-insensitively and
\* after trimming.
StartsWithWakeWord(t) == IsPrefixOf(wake_word, Trimmed(Folded(t)))

\* What is left of the trimmed, case-folded text after the wake word, trimmed.
Remainder(t) ==
    LET u == Trimmed(Folded(t))
    IN  Trimmed([k \in 1..(Len(u) - Len(wake_word)) |-> u[Len(wake_word) + k]])

\* The positions of the registered handlers that accept the string r.
Accepting(r) == {i \in 1..Len(commands) : can_handle(commands[i], r)}

\* The first registered handler that accepts r.
FirstAccepting(r) ==
    commands[CHOOSE i \in Accepting(r) : \A j \in Accepting(r) : i <= j]

\* The calls of execute the last registry call made.
ExecuteCalls == {i \in 1..Len(last.calls) : last.calls[i].method = "execute"}

IsDispatchError(result, fmt) ==
    /\ result.kind = "raise"
    /\ result.type = "CommandExecutionError"
    /\ result.fmt = fmt

C2_FirstMatchWins ==
    /\ (last.op = "get_handler" /\ StartsWithWakeWord(last.command)) =>
          IF Accepting(Remainder(last.command)) = {}
          THEN last.result.value = None
          ELSE last.result.value = FirstAccepting(Remainder(last.command))
    /\ (/\ last.op = "execute_command"
        /\ StartsWithWakeWord(last.command)
        /\ Accepting(Remainder(last.command)) = {}) =>
          /\ IsDispatchError(last.result, NoHandlerFmt)
          /\ last.result.command = last.command

\* Scenario C: H1 (matching "lampu") registered before H2 (matching
\* "lampu nyala"); an utterance whose remainder both accept selects H1.
C2_Witness ==
    /\ last.op = "get_handler"
    /\ commands = <<"H1", "H2">>
    /\ wake_word = S_peter
    /\ last.command = S_PETER \o S_space \o S_Lampu_Nyala
    /\ Accepting(Remainder(last.command)) = {1, 2}
    /\ last.result.value = "H1"

(***************************************************************************)
(* C3: when the text passes the gate and a handler is selected, any        *)
(* failure that handler raises reaches the caller of execute_command as a  *)
(* CommandExecutionError whose message contains the handler's original     *)
(* message; no handler exception propagates raw.                           *)
(***************************************************************************)
C3_HandlerFailureWrapped ==
    last.op = "execute_command" =>
        \A i \in ExecuteCalls :
            last.calls[i].outcome.kind = "raise" =>
                /\ IsDispatchError(last.result, WrappedFmt)
                /\ last.result.cause = last.calls[i].outcome.message

\* A selected handler raised a handler-domain error and the caller got the
\* dispatch error carrying its message.
C3_Witness ==
    /\ last.op = "execute_command"
    /\ \E i \in ExecuteCalls :
          /\ last.calls[i].outcome.kind = "raise"
          /\ last.calls[i].outcome.type = "DeviceConnectionError"
          /\ last.result.cause = HandlerMessage("DeviceConnectionError")
    /\ last.result.type = "CommandExecutionError"

(***************************************************************************)
(* C4: when execute_command selects handler H, it calls H.execute exactly  *)
(* once, with the wake-word-stripped, lowercased, trimmed remainder and    *)
(* the given context, calls no other handler's execute, and returns H's    *)
(* result unchanged.                                                       *)
(***************************************************************************)
C4_ExecuteOnceOnRemainder ==
    (/\ last.op = "execute_command"
     /\ StartsWithWakeWord(last.command)
     /\ Accepting(Remainder(last.command)) # {}) =>
        /\ Cardinality(ExecuteCalls) = 1
        /\ \A i \in ExecuteCalls :
              /\ last.calls[i].handler = FirstAccepting(Remainder(last.command))
              /\ last.calls[i].command = Remainder(last.command)
              /\ last.calls[i].context = last.context
              /\ last.calls[i].outcome.kind = "return" =>
                    last.result = last.calls[i].outcome

\* An utterance with upper case and extra whitespace was dispatched with a
\* context; the handler got the folded remainder and its result came back.
C4_Witness ==
    /\ last.op = "execute_command"
    /\ last.command = S_space \o S_PETER \o S_space \o S_Lampu_Nyala \o S_space
    /\ last.context = "ctx"
    /\ commands = <<"H2", "H1">>
    /\ \E i \in ExecuteCalls :
          /\ last.calls[i].handler = "H2"
          /\ last.calls[i].command = S_lampu_nyala
          /\ last.calls[i].context = "ctx"
    /\ last.result = [kind |-> "return", value |-> "YouTube opened"]

(***************************************************************************)
(* C5: on a registry built with the default wake word, a text that a       *)
(* registered handler accepts is dispatched to that handler although it    *)
(* does not begin with the wake word: get_handler returns the handler      *)
(* after consulting can_handle with the text as given, and execute_command *)
(* returns the handler's result after calling execute with the text as     *)
(* given and the context.  (The statement of test_get_handler and          *)
(* test_execute_command_success; the registry does not behave so.)         *)
(***************************************************************************)
C5_DispatchWithoutWakeWord ==
    (/\ wake_word = InitWakeWord(DefaultWakeWord)
     /\ last.op \in {"get_handler", "execute_command"}
     /\ last.command = Trimmed(Folded(last.command))
     /\ ~StartsWithWakeWord(last.command)
     /\ Accepting(last.command) # {}) =>
        /\ last.op = "get_handler" =>
              /\ last.result.value = FirstAccepting(last.command)
              /\ \E i \in 1..Len(last.calls) :
                    /\ last.calls[i].method = "can_handle"
                    /\ last.calls[i].command = last.command
        /\ last.op = "execute_command" =>
              /\ last.result.kind = "return"
              /\ \E i \in ExecuteCalls :
                    /\ last.calls[i].command = last.command
                    /\ last.calls[i].context = last.context
                    /\ last.calls[i].outcome = last.result

(***************************************************************************)
(* C6: has_wake_word(text) is true exactly when text, lowercased and       *)
(* trimmed of surrounding whitespace, starts with the wake word; a text    *)
(* that only contains the wake word later gives false.                     *)
(***************************************************************************)
C6_HasWakeWordIsPrefixTest ==
    last.op = "has_wake_word" =>
        (last.result.value <=> StartsWithWakeWord(last.command))

\* "lampu peter" holds the wake word, but not at its start: false.
C6_Witness ==
    /\ last.op = "has_wake_word"
    /\ wake_word = S_peter
    /\ last.command = S_lampu \o S_space \o S_peter
    /\ last.result.value = FALSE

(***************************************************************************)
(* C7: for every text T that does not start with the wake word,            *)
(* remove_wake_word returns exactly T lowercased and trimmed, and applying *)
(* it again to that result returns the result unchanged; for T with the    *)
(* prefix it returns the remainder after the wake word with the whitespace *)
(* that follows the prefix removed.                                        *)
(***************************************************************************)
\* u is the wake word, then whitespace only, then v, and v does not begin
\* with whitespace.
IsRemainderOf(v, u) ==
    /\ v = <<>> \/ v[1] \notin Whitespace
    /\ \E n \in 0..Len(u) :
          /\ Len(u) = Len(wake_word) + n + Len(v)
          /\ \A k \in 1..Len(wake_word) : u[k] = wake_word[k]
          /\ \A k \in 1..n : u[Len(wake_word) + k] \in Whitespace
          /\ \A k \in 1..Len(v) : u[Len(wake_word) + n + k] = v[k]

C7_Result ==
    last.op = "remove_wake_word" =>
        IF StartsWithWakeWord(last.command)
        THEN IsRemainderOf(last.result.value, Trimmed(Folded(last.command)))
        ELSE last.result.value = Trimmed(Folded(last.command))

\* A step that applies remove_wake_word to what it returned for a text
\* without the prefix gives that result again.
C7_Again ==
    (/\ last.op = "remove_wake_word"
     /\ ~StartsWithWakeWord(last.command)
     /\ last'.op = "remove_wake_word"
     /\ last'.command = last.result.value) =>
        last'.result.value = last.result.value

C7_RemoveWakeWord == []C7_Result /\ [][C7_Again]_vars

\* remove_wake_word has been applied to "lampu nyala", which is no utterance
\* of the model but what it returns for " Lampu Nyala " and the like.
C7_Witness ==
    /\ last.op = "remove_wake_word"
    /\ last.command = S_lampu_nyala
    /\ last.result.value = S_lampu_nyala

(***************************************************************************)
(* C8: registering a handler that is not already in the registry and       *)
(* immediately unregistering it leaves the handler sequence (members and   *)
(* order) exactly as it was before the register; unregistering a handler   *)
(* that is not present changes nothing.                                    *)
(***************************************************************************)
IsRegistered(h, cmds) == h \in {cmds[i] : i \in 1..Len(cmds)}

C8_Step ==
    /\ (/\ last.op = "register"
        /\ ~IsRegistered(last.handler, prev_commands)
        /\ last'.op = "unregister"
        /\ last'.handler = last.handler) =>
          commands' = prev_commands
    /\ (/\ last'.op = "unregister"
        /\ ~IsRegistered(last'.handler, commands)) =>
          commands' = commands

C8_RegisterUnregisterRestores == [][C8_Step]_vars

\* A handler has just been removed from the end of a non-empty registry that
\* does not hold it otherwise.
C8_Witness ==
    /\ last.op = "unregister"
    /\ commands # <<>>
    /\ prev_commands = commands \o <<last.handler>>
    /\ ~IsRegistered(last.handler, commands)

(***************************************************************************)
(* C9: list_commands returns for each registered handler an entry keyed by *)
(* the handler's class name that holds its description, the wake word, and *)
(* its advertised patterns each prefixed with the wake word; calling it    *)
(* changes neither the handler sequence nor the wake word and calls no     *)
(* handler's can_handle or execute.                                        *)
(***************************************************************************)
C9_Listing ==
    last.op = "list_commands" =>
        /\ DOMAIN last.result.value =
              {ClassName(commands[i]) : i \in 1..Len(commands)}
        /\ \A i \in 1..Len(commands) :
              LET h == commands[i]
                  entry == last.result.value[ClassName(h)]
              IN  /\ entry.description = description(h)
                  /\ entry.wake_word = wake_word
                  /\ Len(entry.patterns) = Len(command_patterns(h))
                  /\ \A k \in 1..Len(entry.patterns) :
                        entry.patterns[k] =
                            wake_word \o <<" ">> \o command_patterns(h)[k]
        /\ last.calls = <<>>
        /\ commands = prev_commands

C9_ReadOnly ==
    last'.op = "list_commands" =>
        (commands' = commands /\ wake_word' = wake_word)

C10_PatternsAsAdvertised ==
    last.op = "list_commands" =>
        \A i \in 1..Len(commands) :
            LET h == commands[i]
                entry == last.result.value[ClassName(h)]
            IN  /\ entry.patterns = command_patterns(h)
                /\ entry.description = description(h)

(***************************************************************************)
(* Configuration records (config/settings.py): SmartDevice and             *)
(* AssistantSettings are dataclasses whose __post_init__ validates them.   *)
(***************************************************************************)
MaxTimeout == 2

ConfigurationError(message) ==
    [kind |-> "raise", type |-> "ConfigurationError", message |-> message]

\* A TypeError raised by a dataclass constructor called with **kwargs.
TypeError == [kind |-> "raise", type |-> "TypeError", message |-> "unexpected or missing keyword argument"]

\* bool(v) of a string or None.
Truthy(v) == v \notin {"", None}

\* all([...]) of Python on a sequence of values.
All(values) == \A i \in 1..Len(values) : Truthy(values[i])

DefaultDeviceType == "outlet"

DeviceTypes == {DefaultDeviceType, "light", ""}

SmartDevice_nokey(name, device_id, ip_address, local_key, device_type) ==
    IF ~All(<<name, device_id, ip_address>>)
    THEN ConfigurationError("All device fields are required")
    ELSE Returned([name |-> name, device_id |-> device_id,
                   ip_address |-> ip_address, local_key |-> local_key,
                   device_type |-> device_type])

\* A device whose __post_init__ accepts only a complete identity.
SmartDevice(name, device_id, ip_address, local_key, device_type) ==
    IF ~All(<<name, device_id, ip_address, local_key>>)
    THEN ConfigurationError("All device fields are required")
    ELSE Returned([name |-> name, device_id |-> device_id,
                   ip_address |-> ip_address, local_key |-> local_key,
                   device_type |-> device_type])

DeviceRequired == {"name", "device_id", "ip_address", "local_key"}

\* SmartDevice(**device): the dataclass constructor rejects a missing
\* required field and an unknown keyword with a TypeError.
SmartDeviceKw(device) ==
    IF ~(DeviceRequired \subseteq DOMAIN device)
          \/ ~(DOMAIN device \subseteq DeviceRequired \cup {"device_type"})
    THEN TypeError
    ELSE SmartDevice(device.name, device.device_id, device.ip_address,
                     device.local_key,
                     IF "device_type" \in DOMAIN device
                     THEN device.device_type ELSE DefaultDeviceType)

DefaultSpeechTimeout == 5

DefaultPhraseTimeLimit == 5

DefaultLanguage == "id-ID"

DefaultLogLevel == "INFO"

DefaultScreenshotsFolder == "screenshots"

DefaultSettingsWakeWord == "peter"

LogLevels == {"DEBUG", "INFO", "WARNING", "ERROR", "CRITICAL"}

AssistantSettings_nonneg(speech_timeout, phrase_time_limit, language, log_level, screenshots_folder, settings_wake_word) ==
    IF speech_timeout < 0 \/ phrase_time_limit < 0
    THEN ConfigurationError("Timeout values must be positive")
    ELSE IF log_level \notin LogLevels
    THEN ConfigurationError("Invalid log level")
    ELSE Returned([speech_timeout |-> speech_timeout,
                   phrase_time_limit |-> phrase_time_limit,
                   language |-> language, log_level |-> log_level,
                   screenshots_folder |-> screenshots_folder,
                   wake_word |-> settings_wake_word])

AssistantSettings(speech_timeout, phrase_time_limit, language, log_level, screenshots_folder, settings_wake_word) ==
    IF speech_timeout <= 0 \/ phrase_time_limit <= 0
    THEN ConfigurationError("Timeout values must be positive")
    ELSE IF log_level \notin LogLevels
    THEN ConfigurationError("Invalid log level")
    ELSE Returned([speech_timeout |-> speech_timeout,
                   phrase_time_limit |-> phrase_time_limit,
                   language |-> language, log_level |-> log_level,
                   screenshots_folder |-> screenshots_folder,
                   wake_word |-> settings_wake_word])

SettingsFields ==
    {"speech_timeout", "phrase_time_limit", "language", "log_level",
     "screenshots_folder", "wake_word"}

\* The value of a keyword argument, or the dataclass default.
Kw(kwargs, key, default) ==
    IF key \in DOMAIN kwargs THEN kwargs[key] ELSE default

\* AssistantSettings(**settings_data).
AssistantSettingsKw(settings_data) ==
    IF ~(DOMAIN settings_data \subseteq SettingsFields)
    THEN TypeError
    ELSE AssistantSettings(
             Kw(settings_data, "speech_timeout", DefaultSpeechTimeout),
             Kw(settings_data, "phrase_time_limit", DefaultPhraseTimeLimit),
             Kw(settings_data, "language", DefaultLanguage),
             Kw(settings_data, "log_level", DefaultLogLevel),
             Kw(settings_data, "screenshots_folder", DefaultScreenshotsFolder),
             Kw(settings_data, "wake_word", DefaultSettingsWakeWord))

(***************************************************************************)
(* Configuration: the aggregate and its dictionary form.                   *)
(***************************************************************************)
\* {} of Python.
EmptyDict == [k \in {} |-> None]

\* A local variable of a method: the value is computed once, then used.
With(value, Body(_)) == CHOOSE r \in {Body(x) : x \in {value}} : TRUE

\* [SmartDevice(**device) for device in devices_data]: the first
\* constructor that raises ends the comprehension.
RECURSIVE BuildDevices(_, _)
BuildDevices(devices_data, i) ==
    IF i > Len(devices_data)
    THEN Returned(<<>>)
    ELSE With(SmartDeviceKw(devices_data[i]), LAMBDA made :
             IF made.kind = "raise"
             THEN made
             ELSE With(BuildDevices(devices_data, i + 1), LAMBDA rest :
                      IF rest.kind = "raise"
                      THEN rest
                      ELSE Returned(<<made.value>> \o rest.value)))

\* Configuration.from_dict: only a TypeError is translated; the
\* ConfigurationError of a __post_init__ passes through.
from_dict(data) ==
    With(BuildDevices(Kw(data, "smart_devices", <<>>), 1), LAMBDA devices :
    With(IF devices.kind = "raise"
         THEN devices
         ELSE AssistantSettingsKw(Kw(data, "settings", EmptyDict)),
         LAMBDA settings :
        IF settings.kind = "raise"
        THEN IF settings.type = "TypeError"
             THEN ConfigurationError("Invalid configuration format")
             ELSE settings
        ELSE Returned([smart_devices |-> devices.value,
                       settings |-> settings.value,
                       application_shortcuts |->
                           Kw(data, "application_shortcuts", EmptyDict)])))

(***************************************************************************)
(* The record constructors called on their own, as the tests of            *)
(* TestSmartDevice, TestAssistantSettings and TestConfiguration call them. *)
(***************************************************************************)
Names == {"", "Smart Lamp"}

DeviceIds == {"", None, "device2"}

Addresses == {"", "192.168.1.101"}

LocalKeys == {"", "key2"}

Timeouts == (-1 .. MaxTimeout) \cup {DefaultSpeechTimeout}

LogLevelArgs == LogLevels \cup {"INVALID", "info", ""}

SettingsWakeWords == {DefaultSettingsWakeWord, "jarvis"}

DeviceArgs ==
    [name : Names, device_id : DeviceIds, ip_address : Addresses,
     local_key : LocalKeys, device_type : DeviceTypes]

SettingsArgs ==
    [speech_timeout : Timeouts, phrase_time_limit : Timeouts,
     language : {DefaultLanguage}, log_level : LogLevelArgs,
     screenshots_folder : {DefaultScreenshotsFolder},
     wake_word : SettingsWakeWords]

\* A device of test_from_dict_valid.
TestDevice ==
    [name |-> "Test Device", device_id |-> "test123",
     ip_address |-> "192.168.1.100", local_key |-> "testkey",
     device_type |-> "outlet"]

\* Dictionary forms: one drawn device alone or after a complete one, with
\* drawn settings or none.
DeviceLists == {<<d>> : d \in DeviceArgs} \cup {<<TestDevice, d>> : d \in DeviceArgs}

DictForms ==
    {[smart_devices |-> ds] : ds \in DeviceLists}
    \cup {[smart_devices |-> <<TestDevice>>, settings |-> st] : st \in SettingsArgs}

registry_vars == <<wake_word, commands, prev_commands, last>>

\* No registry call is in progress: a registry as constructed by default.
NoRegistry ==
    /\ wake_word = DefaultWakeWord
    /\ commands = <<>>
    /\ prev_commands = <<>>
    /\ last = NoCall

ConfigCall(op, args, result) == [op |-> op, args |-> args, result |-> result]

InitRecords ==
    NoRegistry /\ NoConfig /\ NoBrowser /\ NoAssistant /\ NoShutdownTimer

MakeSmartDevice(a) ==
    /\ config_call = NoConfigCall
    /\ config_call' = ConfigCall("SmartDevice", a,
                          SmartDevice(a.name, a.device_id, a.ip_address,
                                      a.local_key, a.device_type))
    /\ UNCHANGED <<registry_vars, config_file, manager_config, browser_vars,
                   assistant_vars, timer_vars>>

MakeAssistantSettings(a) ==
    /\ config_call = NoConfigCall
    /\ config_call' = ConfigCall("AssistantSettings", a,
                          AssistantSettings(a.speech_timeout, a.phrase_time_limit,
                                            a.language, a.log_level,
                                            a.screenshots_folder, a.wake_word))
    /\ UNCHANGED <<registry_vars, config_file, manager_config, browser_vars,
                   assistant_vars, timer_vars>>

FromDict(data) ==
    /\ config_call = NoConfigCall
    /\ config_call' = ConfigCall("from_dict", data, from_dict(data))
    /\ UNCHANGED <<registry_vars, config_file, manager_config, browser_vars,
                   assistant_vars, timer_vars>>

NextRecords ==
    \/ \E a \in DeviceArgs : MakeSmartDevice(a)
    \/ \E a \in SettingsArgs : MakeAssistantSettings(a)
    \/ \E data \in DictForms : FromDict(data)

SpecRecords == InitRecords /\ [][NextRecords]_vars

\* A value that counts as no value at all.
IsEmpty(v) == v = "" \/ v = None

\* Some identity field of the device arguments is empty.
IncompleteIdentity(d) ==
    IsEmpty(d.name) \/ IsEmpty(d.device_id) \/ IsEmpty(d.ip_address)
        \/ IsEmpty(d.local_key)

IsConfigurationError(result) ==
    result.kind = "raise" /\ result.type = "ConfigurationError"

\* C11: constructing a device record, directly or while an aggregate is
\* loaded from its dictionary form, fails with a configuration error when
\* any of name, device id, address or key is empty, and otherwise succeeds
\* with the given fields, whatever the device-type tag.
C11_DeviceValidation ==
    /\ config_call.op = "SmartDevice" =>
          IF IncompleteIdentity(config_call.args)
          THEN IsConfigurationError(config_call.result)
          ELSE config_call.result = Returned(config_call.args)
    /\ (config_call.op = "from_dict" /\ "settings" \notin DOMAIN config_call.args) =>
          LET ds == config_call.args.smart_devices
          IN  IF \E i \in 1..Len(ds) : IncompleteIdentity(ds[i])
              THEN IsConfigurationError(config_call.result)
              ELSE /\ config_call.result.kind = "return"
                   /\ config_call.result.value.smart_devices = ds

C11_Witness ==
    /\ config_call.op = "from_dict"
    /\ "settings" \notin DOMAIN config_call.args
    /\ Len(config_call.args.smart_devices) = 2
    /\ ~IncompleteIdentity(config_call.args.smart_devices[1])
    /\ config_call.args.smart_devices[2].local_key = ""
    /\ ~IsEmpty(config_call.args.smart_devices[2].name)
    /\ ~IsEmpty(config_call.args.smart_devices[2].device_id)
    /\ ~IsEmpty(config_call.args.smart_devices[2].ip_address)
    /\ IsConfigurationError(config_call.result)

\* The levels the settings accept.
FixedLogLevels == {"DEBUG", "INFO", "WARNING", "ERROR", "CRITICAL"}

\* C12: constructing a settings record fails with a configuration error
\* when the speech timeout or the phrase time limit is not strictly
\* positive or the log level is outside the fixed set, and otherwise
\* succeeds with the given fields.
C12_SettingsValidation ==
    config_call.op = "AssistantSettings" =>
        LET a == config_call.args
        IN  IF a.speech_timeout < 1 \/ a.phrase_time_limit < 1
                  \/ a.log_level \notin FixedLogLevels
            THEN IsConfigurationError(config_call.result)
            ELSE config_call.result = Returned(a)

C12_Witness ==
    /\ config_call.op = "AssistantSettings"
    /\ config_call.args.speech_timeout = 0
    /\ config_call.args.phrase_time_limit > 0
    /\ config_call.args.log_level \in FixedLogLevels
    /\ IsConfigurationError(config_call.result)

(***************************************************************************)
(* ConfigManager (config/settings.py) and the file at its config_path.     *)
(***************************************************************************)
\* self._config = None
NoneConfig == [state |-> "None"]

\* A file whose content is not JSON (test_config_manager_with_invalid_json).
NotJson == [kind |-> "text", text |-> "invalid json content"]

\* json.dump(data, f): the file holds the JSON text of data; json.load gives
\* data back, since keys are strings and values strings, numbers and lists.
JsonDump(data) == [kind |-> "json", data |-> data]

\* os.path.exists(config_path)
Exists(file) == file.kind # "absent"

\* Shortcut names.
S_vs_code == <<"v", "s", " ", "c", "o", "d", "e">>
S_visual_studio_code == <<"v", "i", "s", "u", "a", "l", " ", "s", "t", "u", "d", "i", "o", " ", "c", "o", "d", "e">>
S_notepad == <<"n", "o", "t", "e", "p", "a", "d">>
S_calculator == <<"c", "a", "l", "c", "u", "l", "a", "t", "o", "r">>
S_paint == <<"p", "a", "i", "n", "t">>
S_chrome == <<"c", "h", "r", "o", "m", "e">>
S_firefox == <<"f", "i", "r", "e", "f", "o", "x">>
S_edge == <<"e", "d", "g", "e">>
S_Notepad == <<"N", "o", "t", "e", "p", "a", "d">>

\* dict.get(key)
DictGet(d, key) == IF key \in DOMAIN d THEN d[key] ELSE None

\* d[key] = value
DictSet(d, key, value) ==
    [k \in DOMAIN d \cup {key} |-> IF k = key THEN value ELSE d[k]]

\* del d[key]
DictDel(d, key) == [k \in DOMAIN d \ {key} |-> d[k]]

\* Configuration.to_dict: the dictionary that is written to the file.
to_dict(config) ==
    [smart_devices |->
         [i \in 1..Len(config.smart_devices) |->
              LET device == config.smart_devices[i]
              IN  [name |-> device.name, device_id |-> device.device_id,
                   ip_address |-> device.ip_address,
                   local_key |-> device.local_key,
                   device_type |-> device.device_type]],
     settings |->
         [speech_timeout |-> config.settings.speech_timeout,
          phrase_time_limit |-> config.settings.phrase_time_limit,
          language |-> config.settings.language,
          log_level |-> config.settings.log_level,
          screenshots_folder |-> config.settings.screenshots_folder],
     application_shortcuts |-> config.application_shortcuts]

\* Configuration.from_file on the content of the file.
from_file(file) ==
    IF ~Exists(file)
    THEN ConfigurationError("Configuration file not found")
    ELSE IF file.kind # "json"
    THEN ConfigurationError("Invalid JSON in config file")
    ELSE from_dict(file.data)

\* A validate that reports on the settings only.
validate_settings_only(config) ==
    LET settings ==
            AssistantSettings(config.settings.speech_timeout,
                              config.settings.phrase_time_limit,
                              config.settings.language,
                              config.settings.log_level,
                              config.settings.screenshots_folder,
                              config.settings.wake_word)
    IN  IF settings.kind = "raise" THEN settings ELSE Returned(None)

\* Configuration.validate: every device's __post_init__ in order, then the
\* settings' one.
validate(config) ==
    IF \E i \in 1..Len(config.smart_devices) :
           LET device == config.smart_devices[i]
           IN  SmartDevice(device.name, device.device_id, device.ip_address,
                           device.local_key, device.device_type).kind = "raise"
    THEN ConfigurationError("All device fields are required")
    ELSE LET settings ==
                 AssistantSettings(config.settings.speech_timeout,
                                   config.settings.phrase_time_limit,
                                   config.settings.language,
                                   config.settings.log_level,
                                   config.settings.screenshots_folder,
                                   config.settings.wake_word)
         IN  IF settings.kind = "raise" THEN settings ELSE Returned(None)

\* What a method of the manager leaves behind: self._config, the file and
\* what the method returned or raised.
Outcome(config, file, result) ==
    [config |-> config, file |-> file, result |-> result]

\* Configuration.save_to_file: any failure to write is a
\* ConfigurationError and leaves the file as it was.
save_to_file(config, file, writable) ==
    IF writable
    THEN Outcome(config, JsonDump(to_dict(config)), Returned(None))
    ELSE Outcome(config, file, ConfigurationError("Error saving config file"))

\* ConfigManager.save_config
save_config(config, file, writable) ==
    IF config = NoneConfig
    THEN Outcome(config, file, ConfigurationError("No configuration to save"))
    ELSE save_to_file(config, file, writable)

DefaultShortcuts ==
    [k \in {S_vs_code, S_visual_studio_code, S_notepad, S_calculator, S_paint, S_chrome, S_firefox, S_edge} |->
        CASE k = S_vs_code -> "code"
          [] k = S_visual_studio_code -> "code"
          [] k = S_notepad -> "notepad.exe"
          [] k = S_calculator -> "calc.exe"
          [] k = S_paint -> "mspaint.exe"
          [] k = S_chrome -> "chrome.exe"
          [] k = S_firefox -> "firefox.exe"
          [] k = S_edge -> "msedge.exe"]

\* The aggregate ConfigManager.create_default_config builds.
DefaultConfig ==
    [smart_devices |->
         <<SmartDevice("Smart Plug 1", "your_device_id_here", "192.168.1.100",
                       "your_local_key_here", "outlet").value,
           SmartDevice("Smart Lamp", "another_device_id_here", "192.168.1.101",
                       "another_local_key_here", "light").value>>,
     settings |-> AssistantSettingsKw(EmptyDict).value,
     application_shortcuts |-> DefaultShortcuts]

\* ConfigManager.create_default_config: self._config is set before the save.
create_default_config(file, writable) ==
    save_config(DefaultConfig, file, writable)

\* The exception load_config raises for any exception e of its body.
LoadFailure(e) ==
    [kind |-> "raise", type |-> "ConfigurationError",
     message |-> "Failed to load configuration", cause |-> e.message]

load_config_nosave(config, file, writable) ==
    With(IF Exists(file)
         THEN With(from_file(file), LAMBDA loaded :
                  IF loaded.kind = "raise"
                  THEN Outcome(config, file, loaded)
                  ELSE Outcome(loaded.value, file, Returned(None)))
         ELSE Outcome(DefaultConfig, file, Returned(None)),
         LAMBDA attempt :
    With(IF attempt.result.kind = "raise"
         THEN attempt.result
         ELSE validate(attempt.config),
         LAMBDA checked :
        Outcome(attempt.config, attempt.file,
                IF checked.kind = "raise"
                THEN LoadFailure(checked) ELSE Returned(None))))

\* ConfigManager.load_config: self._config is assigned only when from_file
\* returns; every exception leaves as ConfigurationError.
load_config(config, file, writable) ==
    With(IF Exists(file)
         THEN With(from_file(file), LAMBDA loaded :
                  IF loaded.kind = "raise"
                  THEN Outcome(config, file, loaded)
                  ELSE Outcome(loaded.value, file, Returned(None)))
         ELSE create_default_config(file, writable),
         LAMBDA attempt :
    With(IF attempt.result.kind = "raise"
         THEN attempt.result
         ELSE validate(attempt.config),
         LAMBDA checked :
        Outcome(attempt.config, attempt.file,
                IF checked.kind = "raise"
                THEN LoadFailure(checked) ELSE Returned(None))))

get_config_reload(config, file, writable) ==
    With(load_config(config, file, writable), LAMBDA loaded :
        IF loaded.result.kind = "raise"
        THEN loaded
        ELSE Outcome(loaded.config, loaded.file, Returned(loaded.config)))

\* The property ConfigManager.config.
get_config(config, file, writable) ==
    IF config = NoneConfig
    THEN With(load_config(config, file, writable), LAMBDA loaded :
             IF loaded.result.kind = "raise"
             THEN loaded
             ELSE Outcome(loaded.config, loaded.file, Returned(loaded.config)))
    ELSE Outcome(config, file, Returned(config))

\* ConfigManager.get_application_command
get_application_command(config, file, writable, app_name) ==
    With(get_config(config, file, writable), LAMBDA got :
        IF got.result.kind = "raise"
        THEN got
        ELSE Outcome(got.config, got.file,
                     Returned(DictGet(got.config.application_shortcuts,
                                      Lower(app_name)))))

\* manager.config.settings.<field> = value, as test_save_config does: the
\* dataclass does not validate an assignment.
set_setting(config, file, writable, field, value) ==
    With(get_config(config, file, writable), LAMBDA got :
        IF got.result.kind = "raise"
        THEN got
        ELSE Outcome([got.config EXCEPT !.settings[field] = value], got.file,
                     Returned(None)))

\* manager.config.smart_devices[index].<field> = value: no validation
\* either; an index past the list is an IndexError.
set_device_field(config, file, writable, index, field, value) ==
    With(get_config(config, file, writable), LAMBDA got :
        IF got.result.kind = "raise"
        THEN got
        ELSE IF index \notin 1..Len(got.config.smart_devices)
        THEN Outcome(got.config, got.file,
                     [kind |-> "raise", type |-> "IndexError",
                      message |-> "list index out of range"])
        ELSE Outcome([got.config EXCEPT !.smart_devices[index][field] = value],
                     got.file, Returned(None)))

\* manager.config.validate() on the aggregate the manager holds: it reads
\* the records and assigns nothing.
validate_loaded(config, file) == Outcome(config, file, validate(config))

ApplicationLaunchError(message) ==
    [kind |-> "raise", type |-> "ApplicationLaunchError", message |-> message]

\* ApplicationCommand.add_application_shortcut: the key is lowercased, the
\* aggregate saved, and any exception leaves as ApplicationLaunchError.
add_application_shortcut(config, file, writable, name, executable) ==
    With(get_config(config, file, writable), LAMBDA got :
        IF got.result.kind = "raise"
        THEN Outcome(got.config, got.file,
                     ApplicationLaunchError("Failed to add application shortcut"))
        ELSE With(save_config([got.config EXCEPT !.application_shortcuts =
                                   DictSet(@, Lower(name), executable)],
                              got.file, writable),
                  LAMBDA saved :
                 IF saved.result.kind = "raise"
                 THEN Outcome(saved.config, saved.file,
                          ApplicationLaunchError("Failed to add application shortcut"))
                 ELSE saved))

\* ApplicationCommand.remove_application_shortcut
remove_application_shortcut(config, file, writable, name) ==
    With(get_config(config, file, writable), LAMBDA got :
        IF got.result.kind = "raise"
        THEN Outcome(got.config, got.file,
                     ApplicationLaunchError("Failed to remove application shortcut"))
        ELSE IF Lower(name) \notin DOMAIN got.config.application_shortcuts
        THEN Outcome(got.config, got.file,
                     ApplicationLaunchError("Failed to remove application shortcut"))
        ELSE With(save_config([got.config EXCEPT !.application_shortcuts =
                                   DictDel(@, Lower(name))],
                              got.file, writable),
                  LAMBDA saved :
                 IF saved.result.kind = "raise"
                 THEN Outcome(saved.config, saved.file,
                          ApplicationLaunchError("Failed to remove application shortcut"))
                 ELSE saved))

(***************************************************************************)
(* The manager in use: a process constructs it over a path, reads and      *)
(* changes the aggregate through it; the file may be edited by hand.       *)
(***************************************************************************)
\* The file written by test_config_manager_with_valid_file.
ValidFile ==
    [smart_devices |-> <<>>, settings |-> [speech_timeout |-> 3],
     application_shortcuts |-> EmptyDict]

\* A file edited by hand: its own wake word, a capitalised shortcut key.
EditedFile ==
    [smart_devices |-> <<TestDevice>>,
     settings |-> [wake_word |-> "jarvis"],
     application_shortcuts |-> [k \in {S_Notepad} |-> "notepad.exe"]]

\* A file with a device that has no name.
BrokenFile ==
    [smart_devices |-> <<[TestDevice EXCEPT !.name = ""]>>]

Files == {Absent, NotJson} \cup {JsonDump(d) : d \in {ValidFile, EditedFile, BrokenFile}}

\* Attribute assignments on manager.config.settings.
Assignments ==
    {<<"speech_timeout", 15>>, <<"speech_timeout", 0>>,
     <<"log_level", "VERBOSE">>}

\* Attribute assignments on manager.config.smart_devices[0].
DeviceAssignments == {<<"local_key", "">>}

\* Names passed to the shortcut methods.
AppNames == {S_notepad, S_Notepad, S_lampu}

Executables == {"notepad.exe"}

\* A call on the manager: its argument, whether the file existed and whether
\* self._config was already set when the call began, and what it returned or
\* raised.
ManagerCall(op, arg, result) ==
    ConfigCall(op, [arg |-> arg, existed |-> Exists(config_file),
                    cached |-> manager_config \notin {Unbuilt, NoneConfig}],
               result)

Built == manager_config # Unbuilt

InitConfig ==
    /\ NoRegistry
    /\ NoBrowser
    /\ NoShutdownTimer
    /\ NoAssistant
    /\ config_file \in Files
    /\ manager_config = Unbuilt
    /\ config_call = NoConfigCall

\* ConfigManager(config_path): a (new) manager over the path.
ConstructManager ==
    /\ manager_config' = NoneConfig
    /\ config_call' = ManagerCall("__init__", None, Returned(None))
    /\ UNCHANGED <<registry_vars, config_file, browser_vars, assistant_vars, timer_vars>>

\* The outcome of a method becomes the state.
Becomes(op, arg, outcome) ==
    /\ manager_config' = outcome.config
    /\ config_file' = outcome.file
    /\ config_call' = ManagerCall(op, arg, outcome.result)
    /\ UNCHANGED <<registry_vars, browser_vars, assistant_vars, timer_vars>>

AccessConfig ==
    /\ Built
    /\ \E writable \in BOOLEAN :
           \E outcome \in
               {get_config(manager_config, config_file, writable)} :
               Becomes("config", None, outcome)

LoadConfig ==
    /\ Built
    /\ \E writable \in BOOLEAN :
           \E outcome \in
               {load_config(manager_config, config_file, writable)} :
               Becomes("load_config", None, outcome)

SaveConfig ==
    /\ Built
    /\ \E writable \in BOOLEAN :
           \E outcome \in
               {save_config(manager_config, config_file, writable)} :
               Becomes("save_config", None, outcome)

CreateDefaultConfig ==
    /\ Built
    /\ \E writable \in BOOLEAN :
           \E outcome \in
               {create_default_config(config_file, writable)} :
               Becomes("create_default_config", None, outcome)

SetSetting(assignment) ==
    /\ Built
    /\ \E writable \in BOOLEAN :
           \E outcome \in
               {set_setting(manager_config, config_file, writable, assignment[1], assignment[2])} :
               Becomes("set_setting", assignment, outcome)

SetDeviceField(assignment) ==
    /\ Built
    /\ \E writable \in BOOLEAN :
           \E outcome \in
               {set_device_field(manager_config, config_file, writable, 1, assignment[1], assignment[2])} :
               Becomes("set_device_field", assignment, outcome)

Validate ==
    /\ manager_config \notin {Unbuilt, NoneConfig}
    /\ \E outcome \in {validate_loaded(manager_config, config_file)} :
           Becomes("validate", None, outcome)

GetApplicationCommand(app_name) ==
    /\ Built
    /\ \E writable \in BOOLEAN :
           \E outcome \in
               {get_application_command(manager_config, config_file, writable, app_name)} :
               Becomes("get_application_command", app_name, outcome)

AddApplicationShortcut(name, executable) ==
    /\ Built
    /\ \E writable \in BOOLEAN :
           \E outcome \in
               {add_application_shortcut(manager_config, config_file, writable, name, executable)} :
               Becomes("add_application_shortcut", name, outcome)

RemoveApplicationShortcut(name) ==
    /\ Built
    /\ \E writable \in BOOLEAN :
           \E outcome \in
               {remove_application_shortcut(manager_config, config_file, writable, name)} :
               Becomes("remove_application_shortcut", name, outcome)

\* Somebody edits, replaces or deletes the file.
EditFile(content) ==
    /\ config_file' = content
    /\ config_call' = ManagerCall("edit", None, Returned(None))
    /\ UNCHANGED <<registry_vars, manager_config, browser_vars, assistant_vars, timer_vars>>

NextConfig ==
    \/ ConstructManager
    \/ AccessConfig
    \/ LoadConfig
    \/ SaveConfig
    \/ CreateDefaultConfig
    \/ \E assignment \in Assignments : SetSetting(assignment)
    \/ \E assignment \in DeviceAssignments : SetDeviceField(assignment)
    \/ Validate
    \/ \E app_name \in AppNames : GetApplicationCommand(app_name)
    \/ \E name \in AppNames, executable \in Executables :
           AddApplicationShortcut(name, executable)
    \/ \E name \in AppNames : RemoveApplicationShortcut(name)
    \/ \E content \in Files : EditFile(content)

SpecConfig == InitConfig /\ [][NextConfig]_vars

\* The aggregate passes the rules of its records.
ValidAggregate(c) ==
    /\ \A i \in 1..Len(c.smart_devices) : ~IncompleteIdentity(c.smart_devices[i])
    /\ c.settings.speech_timeout > 0
    /\ c.settings.phrase_time_limit > 0
    /\ c.settings.log_level \in FixedLogLevels

\* The manager holds an aggregate.
Loaded == manager_config \notin {Unbuilt, NoneConfig}

(***************************************************************************)
(* C13: for every valid aggregate, saving it to the structured form and    *)
(* loading that form back yields an aggregate with equal devices, equal    *)
(* settings (speech timeout, phrase time limit, language, log level,       *)
(* screenshot folder and wake word) and equal shortcuts.  (to_dict writes  *)
(* no wake word, so the statement fails on the code.)                      *)
(***************************************************************************)
C13_RoundTrip ==
    (/\ config_call.op = "save_config"
     /\ config_call.result.kind = "return"
     /\ ValidAggregate(manager_config)) =>
        LET reloaded == from_file(config_file)
        IN  /\ reloaded.kind = "return"
            /\ reloaded.value.smart_devices = manager_config.smart_devices
            /\ \A f \in {"speech_timeout", "phrase_time_limit", "language",
                         "log_level", "screenshots_folder", "wake_word"} :
                   reloaded.value.settings[f] = manager_config.settings[f]
            /\ reloaded.value.application_shortcuts =
                   manager_config.application_shortcuts

\* C14: when the file is absent, load_config (also when the first access to
\* config triggers it) that returns leaves the manager holding the default
\* aggregate, with two device records and a non-empty shortcut table, and
\* leaves that same aggregate stored at the configuration path.
C14_AbsentFileGivesDefault ==
    (/\ config_call.op \in {"load_config", "config"}
     /\ ~config_call.args.existed
     /\ config_call.op = "config" => ~config_call.args.cached
     /\ config_call.result.kind = "return") =>
        /\ Loaded
        /\ Len(manager_config.smart_devices) = 2
        /\ DOMAIN manager_config.application_shortcuts # {}
        /\ manager_config.settings.speech_timeout = 5
        /\ manager_config.settings.wake_word = "peter"
        /\ Exists(config_file)
        /\ from_file(config_file) = Returned(manager_config)

C14_Witness ==
    /\ config_call.op = "config"
    /\ ~config_call.args.existed
    /\ ~config_call.args.cached
    /\ config_call.result.kind = "return"
    /\ Len(config_call.result.value.smart_devices) = 2
    /\ config_file.kind = "json"

(***************************************************************************)
(* C15: constructing a ConfigManager over a file whose content is not      *)
(* valid JSON raises ConfigurationError.  (The statement of                *)
(* test_config_manager_with_invalid_json; the constructor reads nothing.)  *)
(***************************************************************************)
C15_ConstructionRaises ==
    (config_call.op = "__init__" /\ config_file = NotJson) =>
        IsConfigurationError(config_call.result)

\* C16, in one state: construction leaves nothing loaded, and the first
\* access that returns has materialized the aggregate it returns, from the
\* file when there was one.
C16_Lazy ==
    /\ config_call.op = "__init__" => manager_config = NoneConfig
    /\ (/\ config_call.op = "config"
        /\ ~config_call.args.cached
        /\ config_call.result.kind = "return") =>
           /\ Loaded
           /\ config_call.result.value = manager_config
           /\ config_call.args.existed =>
                  from_file(config_file) = Returned(manager_config)

\* C16, from one call to the next: construction does not touch the file; an
\* access when an aggregate is held returns that aggregate, whatever the
\* file holds by now, and changes neither; an assignment made through one
\* access is in the aggregate the next access returns.
C16_Cached ==
    /\ config_call'.op = "__init__" => config_file' = config_file
    /\ (Loaded /\ config_call'.op = "config") =>
           /\ config_call'.result = Returned(manager_config)
           /\ manager_config' = manager_config
           /\ config_file' = config_file
    /\ (/\ config_call.op = "set_setting"
        /\ config_call.result.kind = "return"
        /\ config_call'.op = "config") =>
           /\ config_call'.result.kind = "return"
           /\ config_call'.result.value.settings[config_call.args.arg[1]]
                  = config_call.args.arg[2]

C17_CaseInsensitiveLookup ==
    (/\ config_call.op = "get_application_command"
     /\ config_call.result.kind = "return") =>
        LET shortcuts == manager_config.application_shortcuts
            matching == {k \in DOMAIN shortcuts :
                             Folded(k) = Folded(config_call.args.arg)}
        IN  IF matching = {}
            THEN config_call.result.value = None
            ELSE \E k \in matching : config_call.result.value = shortcuts[k]

\* C25, from the state before the call to the state after it: validate()
\* leaves the aggregate and the file as they were.
C25_Step ==
    config_call'.op = "validate" =>
        /\ manager_config' = manager_config
        /\ config_file' = config_file

\* C25, in the state after the call: it raised a configuration error when
\* the aggregate breaks a rule of its records, and returned otherwise.
C25_Verdict ==
    config_call.op = "validate" =>
        IF ValidAggregate(manager_config)
        THEN config_call.result = Returned(None)
        ELSE IsConfigurationError(config_call.result)

\* C25: validate() on the loaded aggregate raises a configuration error
\* whenever some device has an empty name, id, address or key, or the
\* settings have a non-positive timeout or a log level outside the fixed
\* set, including when the violation was introduced by in-place mutation
\* after load, and returns normally otherwise; it does not change the
\* aggregate.
C25_ValidateReports == []C25_Verdict /\ [][C25_Step]_vars

\* validate() raised on an aggregate whose only violation is a device field
\* emptied after the load.
C25_Witness ==
    /\ config_call.op = "validate"
    /\ IsConfigurationError(config_call.result)
    /\ Len(manager_config.smart_devices) > 0
    /\ IsEmpty(manager_config.smart_devices[1].local_key)
    /\ manager_config.settings.speech_timeout > 0
    /\ manager_config.settings.log_level \in FixedLogLevels

(***************************************************************************)
(* BrowserCommand (commands/browser_commands.py).  The strings it builds   *)
(* are kept character by character.                                        *)
(***************************************************************************)
MaxOpened == 1

S_https == <<"h", "t", "t", "p", "s", ":", "/", "/">>
S_dot_com == <<".", "c", "o", "m">>
S_youtube_url == <<"h", "t", "t", "p", "s", ":", "/", "/", "y", "o", "u", "t", "u", "b",
      "e", ".", "c", "o", "m">>
S_YouTube_opened == <<"Y", "o", "u", "T", "u", "b", "e", " ", "o", "p", "e", "n", "e", "d">>
S_google_search == <<"h", "t", "t", "p", "s", ":", "/", "/", "w", "w", "w", ".", "g", "o",
      "o", "g", "l", "e", ".", "c", "o", "m", "/", "s", "e", "a", "r",
      "c", "h", "?", "q", "=">>
S_Searching_Google_for == <<"S", "e", "a", "r", "c", "h", "i", "n", "g", " ", "G", "o", "o", "g",
      "l", "e", " ", "f", "o", "r", ":", " ">>
S_Opened_website == <<"O", "p", "e", "n", "e", "d", " ", "w", "e", "b", "s", "i", "t", "e",
      ":", " ">>
W_github == <<"g", "i", "t", "h", "u", "b">>
W_facebook == <<"f", "a", "c", "e", "b", "o", "o", "k">>
W_twitter == <<"t", "w", "i", "t", "t", "e", "r">>
W_instagram == <<"i", "n", "s", "t", "a", "g", "r", "a", "m">>
W_linkedin == <<"l", "i", "n", "k", "e", "d", "i", "n">>
W_stackoverflow == <<"s", "t", "a", "c", "k", "o", "v", "e", "r", "f", "l", "o", "w">>
W_reddit == <<"r", "e", "d", "d", "i", "t">>
W_netflix == <<"n", "e", "t", "f", "l", "i", "x">>
W_amazon == <<"a", "m", "a", "z", "o", "n">>
W_gmail == <<"g", "m", "a", "i", "l">>
W_youtube == <<"y", "o", "u", "t", "u", "b", "e">>
W_google == <<"g", "o", "o", "g", "l", "e">>

\* self.website_shortcuts
website_shortcuts ==
    [name \in {W_github, W_facebook, W_twitter, W_instagram, W_linkedin, W_stackoverflow,
               W_reddit, W_netflix, W_amazon, W_gmail, W_youtube, W_google} |->
        S_https \o name \o S_dot_com]

\* What execute raises, whatever went wrong inside: the except clause of
\* execute turns every exception into this one.
BrowserFailure ==
    [kind |-> "raise", type |-> "CommandExecutionError",
     message |-> HandlerMessage("CommandExecutionError")]

\* What a handler's execute leaves behind: the URLs it opened and what it
\* returned or raised.
Done(urls, outcome) == [opened |-> urls, outcome |-> outcome]

\* The longest initial part of s without a newline: what (.+) can match.
RECURSIVE Line(_)
Line(s) ==
    IF s = <<>> \/ Head(s) = "\n" THEN <<>> ELSE <<Head(s)>> \o Line(Tail(s))

\* re.search(prefix + r' (.+)', command).group(1): what follows the leftmost
\* place where the prefix, a space and one more character follow each
\* other.  A match has at least one character; <<>> stands for no match.
SearchGroup(command, prefix) ==
    LET at == {i \in 1..(Len(command) - Len(prefix) - 1) :
                   /\ SubSeq(command, i, i + Len(prefix)) = prefix \o S_space
                   /\ command[i + Len(prefix) + 1] # "\n"}
    IN  IF at = {}
        THEN <<>>
        ELSE LET first == CHOOSE i \in at : \A j \in at : i <= j
             IN  Line(SubSeq(command, first + Len(prefix) + 1, Len(command)))

\* str.replace(' ', '+')
PlusForSpace(s) == [i \in 1..Len(s) |-> IF s[i] = " " THEN "+" ELSE s[i]]

\* webbrowser.open(url), which may raise; then the success string.
OpenThen(url, works, success) ==
    IF works THEN Done(<<url>>, Returned(success)) ELSE Done(<<>>, BrowserFailure)

open_youtube_as_website(works) ==
    OpenThen(S_youtube_url, works, S_Opened_website \o S_youtube_url)

\* BrowserCommand._open_youtube
open_youtube(works) == OpenThen(S_youtube_url, works, S_YouTube_opened)

\* BrowserCommand._search_google
search_google(command, works) ==
    With(Strip(SearchGroup(command, S_cari_di_google)), LAMBDA keywords :
        IF keywords = <<>>
        THEN Done(<<>>, BrowserFailure)
        ELSE OpenThen(S_google_search \o PlusForSpace(keywords), works,
                      S_Searching_Google_for \o keywords))

\* BrowserCommand._open_website
open_website(command, works) ==
    With(Lower(Strip(SearchGroup(command, S_buka_website))), LAMBDA website_name :
        IF website_name = <<>>
        THEN Done(<<>>, BrowserFailure)
        ELSE With(IF website_name \in DOMAIN website_shortcuts
                  THEN website_shortcuts[website_name]
                  ELSE S_https \o website_name \o S_dot_com,
                  LAMBDA url : OpenThen(url, works, S_Opened_website \o url)))

\* BrowserCommand.execute; works says whether webbrowser.open returns.
BrowserExecute(command, works) ==
    With(Lower(command), LAMBDA command_lower :
        IF Contains(command_lower, S_buka_youtube)
        THEN open_youtube(works)
        ELSE IF Contains(command_lower, S_cari_di_google)
        THEN search_google(command_lower, works)
        ELSE IF Contains(command_lower, S_buka_website)
        THEN open_website(command_lower, works)
        ELSE Done(<<>>, BrowserFailure))

(***************************************************************************)
(* A registry with the browser handler, called with spoken texts.          *)
(***************************************************************************)
BrowserPhrases == {S_buka_youtube, S_cari_di_google, S_buka_website, S_lampu}

BrowserArguments == {<<>>, S_space, S_space \o W_github, S_space \o S_lampu_nyala}

BrowserTexts ==
    {first \o Pad(gap) \o phrase \o argument :
        first \in {<<>>, S_peter, S_PETER}, gap \in 0..MaxGap,
        phrase \in BrowserPhrases, argument \in BrowserArguments}

InitBrowser ==
    /\ wake_word = InitWakeWord(DefaultWakeWord)
    /\ commands = <<>>
    /\ prev_commands = <<>>
    /\ last = NoCall
    /\ NoConfig
    /\ NoBrowser
    /\ NoShutdownTimer
    /\ NoAssistant

\* registry.register(BrowserCommand())
RegisterBrowser ==
    /\ commands = <<>>
    /\ commands' = register(commands, "Browser")
    /\ prev_commands' = commands
    /\ last' = Call("register", "Browser", <<>>, None, Returned(None), <<>>)
    /\ UNCHANGED <<wake_word, config_vars, browser_vars, assistant_vars, timer_vars>>

\* registry.execute_command(t, context) with the handler's execute as it is.
ExecuteBrowserCommand(t, context) ==
    /\ MayMutate
    /\ Len(opened) < MaxOpened
    /\ \E works \in BOOLEAN :
       \E done \in {BrowserExecute(remove_wake_word(wake_word, t), works)} :
       \E run \in {execute_command(commands, wake_word, t, context, done.outcome)} :
          /\ last' = Call("execute_command", None, t, context, run.result, run.calls)
          /\ opened' = Append(opened,
                               IF \E i \in 1..Len(run.calls) :
                                      run.calls[i].method = "execute"
                               THEN done.opened
                               ELSE <<>>)
    /\ prev_commands' = commands
    /\ UNCHANGED <<wake_word, commands, config_vars, assistant_vars, timer_vars>>

\* The caller is done with the result.
ConsumeBrowser ==
    /\ ~Idle
    /\ last' = NoCall
    /\ prev_commands' = commands
    /\ UNCHANGED <<wake_word, commands, config_vars, browser_vars,
                   assistant_vars, timer_vars>>

NextBrowser ==
    \/ RegisterBrowser
    \/ \E t \in BrowserTexts, context \in Contexts : ExecuteBrowserCommand(t, context)
    \/ ConsumeBrowser

SpecBrowser == InitBrowser /\ [][NextBrowser]_vars

\* p occurs somewhere in s.
IsSubstring(p, s) ==
    \E i \in 0..(Len(s) - Len(p)) : \A k \in 1..Len(p) : s[i + k] = p[k]

\* The case of scenario A: wake word "peter", only the browser handler, the
\* text "peter buka youtube", and the browser opened what it was asked to.
ScenarioA ==
    /\ wake_word = S_peter
    /\ commands = <<"Browser">>
    /\ last.op = "execute_command"
    /\ last.command = S_peter \o S_space \o S_buka_youtube
    /\ opened # <<>>
    /\ opened[Len(opened)] # <<>>

(***************************************************************************)
(* C18, as stated: with wake word "peter" and only the browser handler     *)
(* registered, execute_command("peter buka youtube") succeeds and returns  *)
(* a success string that contains the literal URL that was opened.         *)
(***************************************************************************)
C18_SuccessStringHasUrl ==
    ScenarioA =>
        /\ last.result.kind = "return"
        /\ IsSubstring(opened[Len(opened)][1], last.result.value)

\* C18, amended: in that case execute_command opens https://youtube.com and
\* returns the string "YouTube opened", which does not name the URL.
C18_YouTubeOpened ==
    ScenarioA =>
        /\ opened[Len(opened)] = <<
               <<"h", "t", "t", "p", "s", ":", "/", "/", "y", "o", "u", "t", "u",
                 "b", "e", ".", "c", "o", "m">> >>
        /\ last.result.kind = "return"
        /\ last.result.value =
               <<"Y", "o", "u", "T", "u", "b", "e", " ", "o", "p", "e", "n", "e", "d">>
        /\ ~IsSubstring(opened[Len(opened)][1], last.result.value)

C18_Witness ==
    /\ ScenarioA
    /\ last.result.kind = "return"
    /\ Len(last.result.value) = 14

(***************************************************************************)
(* The orchestrator: core/assistant.py.  start, start_async and stop are   *)
(* called from several threads; each statement that reads or writes        *)
(* self.running is a step of its own, because nothing in the class locks.  *)
(***************************************************************************)

\* How many background threads start_async creates in one behaviour.
MaxThreads == 1

\* How many commands are heard, one command thread each.
MaxWorkers == 2

\* The threads that call the public methods.
Callers == {1, 2}

\* The program's main thread: the one main.py calls the blocking start() on
\* and the one Python delivers KeyboardInterrupt to.  The other caller is a
\* thread beside it, which calls start_async() and stop().
MainCaller == 1

\* The threads made by start_async (threading.Thread, line 67).
BgThreads == {Cardinality(Callers) + i : i \in 1 .. MaxThreads}

\* Every thread that can execute _run_main_loop.
Threads == Callers \cup BgThreads

WorkerIds == 1 .. MaxWorkers

\* A caller outside every method of the orchestrator.
Outside == [pc |-> "idle", after |-> "return", restarted |-> FALSE]

\* `if self.running: return` of start and start_async
already_running_never(flag) == FALSE

already_running(flag) == flag

\* `if not self.running: return` of stop
not_running(flag) == ~flag

\* What the try statement of the loop does with an exception of the
\* listen attempt: `except Exception` takes it.
on_listen_exception_escapes == "crashed"

on_listen_exception == "failed"

\* What the except clauses of start do once stop() has returned:
\* KeyboardInterrupt ends the call, Exception raises VoiceAssistantError.
AfterStop(escape) == IF escape = "interrupted" THEN "return" ELSE "raise"

\* The caller c moves to position pc.
Goes(c, pc) == [callers EXCEPT ![c].pc = pc]

\* self.running = True, seen from the callers that are between the escape
\* of an exception and the end of their own start().
Restarted(cs) ==
    [d \in DOMAIN cs |->
        IF cs[d].after = "raise" THEN [cs[d] EXCEPT !.restarted = TRUE] ELSE cs[d]]

\* The return of stop(): to the caller, or into the raise of start.
StopReturns(c) ==
    IF callers[c].after = "raise"
    THEN Goes(c, "raised")
    ELSE [callers EXCEPT ![c] = Outside]

\* VoiceAssistant(...): stopped, no thread.
InitAssistant ==
    /\ NoRegistry
    /\ NoConfig
    /\ NoBrowser
    /\ NoShutdownTimer
    /\ running = FALSE
    /\ main_thread = NoThread
    /\ callers = [c \in Callers |-> Outside]
    /\ loops = [t \in Threads |-> "none"]
    /\ workers = [w \in WorkerIds |-> "none"]

outside_assistant == <<registry_vars, config_vars, browser_vars, timer_vars>>

\* c calls start().
CallStart(c) ==
    /\ c = MainCaller
    /\ callers[c].pc = "idle"
    /\ callers' = Goes(c, "start")
    /\ UNCHANGED <<running, main_thread, loops, workers, outside_assistant>>

\* start, lines 41-43: the guard.
StartCheck(c) ==
    /\ callers[c].pc = "start"
    /\ callers' = IF already_running(running)
                  THEN [callers EXCEPT ![c] = Outside]
                  ELSE Goes(c, "start_set")
    /\ UNCHANGED <<running, main_thread, loops, workers, outside_assistant>>

\* start, lines 45-49: the flag is set and the loop is entered.
StartSet(c) ==
    /\ callers[c].pc = "start_set"
    /\ running' = TRUE
    /\ callers' = [Restarted(callers) EXCEPT ![c] = [Outside EXCEPT !.pc = "looping"]]
    /\ loops' = [loops EXCEPT ![c] = "enter"]
    /\ UNCHANGED <<main_thread, workers, outside_assistant>>

\* start: _run_main_loop returned, so start returns.
StartReturns(c) ==
    /\ callers[c].pc = "looping"
    /\ loops[c] = "done"
    /\ callers' = [callers EXCEPT ![c] = Outside]
    /\ loops' = [loops EXCEPT ![c] = "none"]
    /\ UNCHANGED <<running, main_thread, workers, outside_assistant>>

\* start, lines 50-56: an exception left _run_main_loop; either except
\* clause logs and calls self.stop().
StartCatches(c) ==
    /\ callers[c].pc = "looping"
    /\ loops[c] \in {"crashed", "interrupted"}
    /\ callers' = [callers EXCEPT ![c] =
                       [pc |-> "stop", after |-> AfterStop(loops[c]),
                        restarted |-> FALSE]]
    /\ loops' = [loops EXCEPT ![c] = "none"]
    /\ UNCHANGED <<running, main_thread, workers, outside_assistant>>

\* The caller of start() has the VoiceAssistantError.
Resume(c) ==
    /\ callers[c].pc = "raised"
    /\ callers' = [callers EXCEPT ![c] = Outside]
    /\ UNCHANGED <<running, main_thread, loops, workers, outside_assistant>>

\* c calls start_async(); it will need a thread.
CallStartAsync(c) ==
    /\ callers[c].pc = "idle"
    /\ \E t \in BgThreads : loops[t] = "none"
    /\ callers' = Goes(c, "start_async")
    /\ UNCHANGED <<running, main_thread, loops, workers, outside_assistant>>

\* start_async, lines 60-62: the guard.
AsyncCheck(c) ==
    /\ callers[c].pc = "start_async"
    /\ callers' = IF already_running(running)
                  THEN [callers EXCEPT ![c] = Outside]
                  ELSE Goes(c, "start_async_set")
    /\ UNCHANGED <<running, main_thread, loops, workers, outside_assistant>>

\* start_async, line 64: self.running = True
AsyncSet(c) ==
    /\ callers[c].pc = "start_async_set"
    /\ running' = TRUE
    /\ callers' = [Restarted(callers) EXCEPT ![c] = [Outside EXCEPT !.pc = "start_async_spawn"]]
    /\ UNCHANGED <<main_thread, loops, workers, outside_assistant>>

\* start_async, lines 65-68: the thread is made, kept and started.
AsyncSpawn(c) ==
    /\ callers[c].pc = "start_async_spawn"
    /\ \E t \in BgThreads :
           /\ loops[t] = "none"
           /\ \A u \in BgThreads : u < t => loops[u] # "none"
           /\ main_thread' = t
           /\ loops' = [loops EXCEPT ![t] = "enter"]
    /\ callers' = [callers EXCEPT ![c] = Outside]
    /\ UNCHANGED <<running, workers, outside_assistant>>

\* c calls stop().
CallStop(c) ==
    /\ callers[c].pc = "idle"
    /\ callers' = Goes(c, "stop")
    /\ UNCHANGED <<running, main_thread, loops, workers, outside_assistant>>

\* stop, lines 72-73: the guard.
StopCheck(c) ==
    /\ callers[c].pc = "stop"
    /\ callers' = IF not_running(running)
                  THEN StopReturns(c)
                  ELSE Goes(c, "stop_set")
    /\ UNCHANGED <<running, main_thread, loops, workers, outside_assistant>>

\* stop, lines 75-76: self.running = False
StopSet(c) ==
    /\ callers[c].pc = "stop_set"
    /\ running' = FALSE
    /\ callers' = Goes(c, "stop_join")
    /\ UNCHANGED <<main_thread, loops, workers, outside_assistant>>

\* stop, lines 78-84: without a live background thread there is nothing to
\* wait for; with one, join(timeout=5.0) ends when the thread has ended or
\* when the five seconds have passed, whichever the schedule gives.
StopJoin(c) ==
    /\ callers[c].pc = "stop_join"
    /\ callers' = StopReturns(c)
    /\ UNCHANGED <<running, main_thread, loops, workers, outside_assistant>>

\* _run_main_loop, line 88: the loop is announced.
LoopEnter(t) ==
    /\ loops[t] = "enter"
    /\ loops' = [loops EXCEPT ![t] = "check"]
    /\ UNCHANGED <<running, main_thread, callers, workers, outside_assistant>>

\* _run_main_loop, lines 88 and 107-109: the statements outside the try
\* block call the injected logger; an exception of theirs leaves the loop.
LoopCrash(t) ==
    /\ loops[t] \in {"enter", "failed"}
    /\ loops' = [loops EXCEPT ![t] = "crashed"]
    /\ UNCHANGED <<running, main_thread, callers, workers, outside_assistant>>

\* KeyboardInterrupt, delivered to the main thread while it runs the loop
\* under start(); it is no Exception, so the loop's except clause lets it pass.
Interrupt(t) ==
    /\ t = MainCaller
    /\ loops[t] \in {"enter", "check", "listen", "dispatch", "sleep", "failed"}
    /\ loops' = [loops EXCEPT ![t] = "interrupted"]
    /\ UNCHANGED <<running, main_thread, callers, workers, outside_assistant>>

\* The loop condition that never looks at the flag.
while_true(flag) == TRUE

\* The loop condition, line 90: while self.running
while_running(flag) == flag

\* _run_main_loop, line 90: the condition is evaluated.
LoopCheck(t) ==
    /\ loops[t] = "check"
    /\ loops' = [loops EXCEPT ![t] =
                     IF while_running(running) THEN "listen" ELSE "done"]
    /\ UNCHANGED <<running, main_thread, callers, workers, outside_assistant>>

\* _run_main_loop, lines 93-95: a command was heard, and
\* `if command and self.running` decides whether it gets a thread.
ListenHears(t) ==
    /\ loops[t] = "listen"
    /\ Cardinality({w \in WorkerIds : workers[w] # "none"})
           + Cardinality({u \in Threads : loops[u] = "dispatch"}) < MaxWorkers
    /\ loops' = [loops EXCEPT ![t] = IF running THEN "dispatch" ELSE "sleep"]
    /\ UNCHANGED <<running, main_thread, callers, workers, outside_assistant>>

\* A loop that starts the next command thread only when no earlier one is
\* still at work.
Dispatch_joins(t) ==
    /\ loops[t] = "dispatch"
    /\ \A v \in WorkerIds : workers[v] # "processing"
    /\ \E w \in WorkerIds :
           /\ workers[w] = "none"
           /\ \A v \in WorkerIds : v < w => workers[v] # "none"
           /\ workers' = [workers EXCEPT ![w] = "processing"]
    /\ loops' = [loops EXCEPT ![t] = "sleep"]
    /\ UNCHANGED <<running, main_thread, callers, outside_assistant>>

\* _run_main_loop, lines 97-102: the command thread is made and started;
\* nothing reads self.running again before it is.
Dispatch(t) ==
    /\ loops[t] = "dispatch"
    /\ \E w \in WorkerIds :
           /\ workers[w] = "none"
           /\ \A v \in WorkerIds : v < w => workers[v] # "none"
           /\ workers' = [workers EXCEPT ![w] = "processing"]
    /\ loops' = [loops EXCEPT ![t] = "sleep"]
    /\ UNCHANGED <<running, main_thread, callers, outside_assistant>>

\* _run_main_loop, lines 93-95: listen_for_command returned None.
ListenHearsNothing(t) ==
    /\ loops[t] = "listen"
    /\ loops' = [loops EXCEPT ![t] = "sleep"]
    /\ UNCHANGED <<running, main_thread, callers, workers, outside_assistant>>

\* _run_main_loop, lines 93 and 107: listen_for_command raised.
ListenFails(t) ==
    /\ loops[t] = "listen"
    /\ loops' = [loops EXCEPT ![t] = on_listen_exception]
    /\ UNCHANGED <<running, main_thread, callers, workers, outside_assistant>>

\* _run_main_loop, line 105: time.sleep(0.1)
Sleep(t) ==
    /\ loops[t] = "sleep"
    /\ loops' = [loops EXCEPT ![t] = "check"]
    /\ UNCHANGED <<running, main_thread, callers, workers, outside_assistant>>

\* _run_main_loop, lines 107-109: logged, one second of pause, next round.
HandlerDone(t) ==
    /\ loops[t] = "failed"
    /\ loops' = [loops EXCEPT ![t] = "check"]
    /\ UNCHANGED <<running, main_thread, callers, workers, outside_assistant>>

\* _process_command_safely, lines 113-121: the command was executed.
WorkerSucceeds(w) ==
    /\ workers[w] = "processing"
    /\ workers' = [workers EXCEPT ![w] = "succeeded"]
    /\ UNCHANGED <<running, main_thread, callers, loops, outside_assistant>>

\* _process_command_safely, lines 123-127: execute_command raised; both
\* except clauses log and the thread ends.
WorkerFails(w) ==
    /\ workers[w] = "processing"
    /\ workers' = [workers EXCEPT ![w] = "failed"]
    /\ UNCHANGED <<running, main_thread, callers, loops, outside_assistant>>

NextAssistant ==
    \/ \E c \in Callers : CallStart(c)
    \/ \E c \in Callers : StartCheck(c)
    \/ \E c \in Callers : StartSet(c)
    \/ \E c \in Callers : StartReturns(c)
    \/ \E c \in Callers : StartCatches(c)
    \/ \E c \in Callers : Resume(c)
    \/ \E c \in Callers : CallStartAsync(c)
    \/ \E c \in Callers : AsyncCheck(c)
    \/ \E c \in Callers : AsyncSet(c)
    \/ \E c \in Callers : AsyncSpawn(c)
    \/ \E c \in Callers : CallStop(c)
    \/ \E c \in Callers : StopCheck(c)
    \/ \E c \in Callers : StopSet(c)
    \/ \E c \in Callers : StopJoin(c)
    \/ \E t \in Threads : LoopEnter(t)
    \/ \E t \in Threads : LoopCrash(t)
    \/ \E t \in Threads : Interrupt(t)
    \/ \E t \in Threads : LoopCheck(t)
    \/ \E t \in Threads : ListenHears(t)
    \/ \E t \in Threads : Dispatch(t)
    \/ \E t \in Threads : ListenHearsNothing(t)
    \/ \E t \in Threads : ListenFails(t)
    \/ \E t \in Threads : Sleep(t)
    \/ \E t \in Threads : HandlerDone(t)
    \/ \E w \in WorkerIds : WorkerSucceeds(w)
    \/ \E w \in WorkerIds : WorkerFails(w)

SpecAssistant == InitAssistant /\ [][NextAssistant]_vars

\* What a thread inside _run_main_loop does next when nothing is raised
\* outside the try block.
LoopStep(t) ==
    \/ LoopEnter(t)
    \/ LoopCheck(t)
    \/ ListenHears(t)
    \/ ListenHearsNothing(t)
    \/ ListenFails(t)
    \/ Dispatch(t)
    \/ Sleep(t)
    \/ HandlerDone(t)

\* Every thread inside the loop is scheduled again, both sleeps end, and
\* every listen_for_command call comes back (the recognizer's timeout makes
\* it return None when nothing is said).
LoopsProgress == \A t \in Threads : WF_vars(LoopStep(t))

SpecAssistantLive == SpecAssistant /\ LoopsProgress

(***************************************************************************)
(* Vocabulary of the orchestrator's claims.                                *)
(***************************************************************************)

\* The caller c takes a step of the method it is in.
Steps(c) == callers'[c].pc # callers[c].pc

\* The caller c is about to execute the statement named by pc and does so.
Executes(c, pc) == callers[c].pc = pc /\ Steps(c)

\* Nothing of the orchestrator but the callers' positions changes.
NothingChanges == UNCHANGED <<running, main_thread, loops, workers>>

\* The positions of a loop that is still going round.
Alive == {"enter", "check", "listen", "dispatch", "sleep", "failed"}

(***************************************************************************)
(* C19: the orchestrator has exactly two states, stopped and running, and  *)
(* is created stopped.  start and start_async move it from stopped to      *)
(* running and stop moves it from running to stopped; start or start_async *)
(* while running and stop while stopped change nothing; when an exception  *)
(* escapes the main loop under start(), the orchestrator has been left     *)
(* stopped before VoiceAssistantError is raised.                           *)
(***************************************************************************)
C19_TwoStates == running \in BOOLEAN

\* start() raises only out of its own stop(), and unless another thread set
\* the flag again since the exception escaped, the orchestrator is stopped.
C19_StoppedBeforeRaise ==
    \A c \in Callers :
        callers[c].pc = "raised" =>
            /\ callers[c].after = "raise"
            /\ ~callers[c].restarted => ~running

C19_Step ==
    /\ running' # running =>
           \E c \in Callers :
               IF running'
               THEN Executes(c, "start_set") \/ Executes(c, "start_async_set")
               ELSE Executes(c, "stop_set")
    /\ \A c \in Callers :
           /\ Executes(c, "start") /\ ~running =>
                  callers'[c].pc = "start_set"
           /\ Executes(c, "start_async") /\ ~running =>
                  callers'[c].pc = "start_async_set"
           /\ Executes(c, "start_set") \/ Executes(c, "start_async_set") =>
                  running'
           /\ Executes(c, "stop") /\ running =>
                  callers'[c].pc = "stop_set"
           /\ Executes(c, "stop_set") => ~running'
           /\ Executes(c, "start") \/ Executes(c, "start_async") =>
                  (running => callers'[c].pc = "idle" /\ NothingChanges)
           /\ Executes(c, "stop") /\ ~running =>
                  callers'[c].pc \in {"idle", "raised"} /\ NothingChanges
           /\ callers[c].pc = "looping" /\ loops[c] = "crashed" /\ Steps(c) =>
                  callers'[c].pc = "stop" /\ callers'[c].after = "raise"
           /\ callers'[c].pc = "raised" /\ Steps(c) =>
                  callers[c].pc \in {"stop", "stop_join"}

C19_StateMachine ==
    /\ ~running
    /\ [](C19_TwoStates /\ C19_StoppedBeforeRaise)
    /\ [][C19_Step]_vars

\* start() has raised VoiceAssistantError after an exception escaped its
\* loop, and the orchestrator is stopped.
C19_Witness ==
    \E c \in Callers :
        /\ callers # <<>>
        /\ callers[c].pc = "raised"
        /\ ~callers[c].restarted
        /\ ~running

(***************************************************************************)
(* C20: while the orchestrator is running, neither an exception raised by  *)
(* a listen attempt nor one raised inside a command thread changes the     *)
(* running state or ends the listening loop: after either failure the loop *)
(* goes round again, and it returns only after running has become false.   *)
(***************************************************************************)
C20_Step ==
    /\ \A t \in Threads :
           /\ loops[t] = "listen" =>
                  loops'[t] \in {"listen", "dispatch", "sleep", "failed",
                                "interrupted"}
           /\ loops[t] = "listen" /\ loops'[t] = "failed" =>
                  running' = running
           /\ loops[t] = "failed" /\ loops'[t] \in Alive \ {"failed"} =>
                  loops'[t] = "check" /\ running' = running
           /\ loops[t] = "check" /\ loops'[t] \in Alive \ {"check"} =>
                  running /\ loops'[t] = "listen"
           /\ loops'[t] = "done" /\ loops[t] # "done" =>
                  ~running /\ loops[t] = "check"
    /\ \A w \in WorkerIds :
           workers[w] = "processing" /\ workers'[w] = "failed" =>
               /\ running' = running
               /\ loops' = loops

C20_FailuresKeepLoop == [][C20_Step]_vars

\* A listen attempt has raised in a loop that stays alive while a command
\* thread has failed, and the orchestrator is still running.
C20_Witness ==
    /\ running
    /\ \E t \in DOMAIN loops : loops[t] = "failed"
    /\ \E w \in DOMAIN workers : workers[w] = "failed"

(***************************************************************************)
(* C21: each non-empty utterance that listen_for_command returns while the *)
(* orchestrator is running is handed to one newly started worker, and the  *)
(* loop goes on to its next listen without waiting for that worker, so a   *)
(* worker that never completes does not keep later utterances from being   *)
(* dispatched; an utterance of None starts no worker and is no error.      *)
(***************************************************************************)
Started == {w \in WorkerIds : workers[w] # "none"}

StartedNext == {w \in WorkerIds : workers'[w] # "none"}

C21_Step ==
    \A t \in Threads :
        /\ loops[t] = "listen" /\ loops'[t] = "dispatch" =>
               running /\ workers' = workers
        /\ loops[t] = "dispatch" /\ loops'[t] \in Alive \ {"dispatch"} =>
               /\ loops'[t] = "sleep"
               /\ Cardinality(StartedNext) = Cardinality(Started) + 1
               /\ \A w \in Started : workers'[w] = workers[w]
               /\ \A w \in StartedNext \ Started : workers'[w] = "processing"
        /\ loops[t] = "listen" /\ loops'[t] = "sleep" =>
               workers' = workers
        /\ loops[t] = "sleep" /\ loops'[t] \in Alive \ {"sleep"} =>
               loops'[t] = "check"
        /\ loops[t] = "check" /\ running /\ loops'[t] \in Alive \ {"check"} =>
               loops'[t] = "listen"

\* Getting from one listen to the next never depends on a worker: whatever
\* the workers are doing, the loop can take its next step.
C21_NeverWaits ==
    \A t \in Threads :
        loops[t] \in {"dispatch", "sleep", "check"} => ENABLED LoopStep(t)

C21_DispatchWithoutWaiting == []C21_NeverWaits /\ [][C21_Step]_vars

\* A second utterance has been dispatched while the worker of the first is
\* still at it, and the loop is listening again.
C21_Witness ==
    /\ running
    /\ Cardinality({w \in DOMAIN workers : workers[w] = "processing"}) >= 2
    /\ \E t \in DOMAIN loops : loops[t] = "listen"

(***************************************************************************)
(* C22: after stop() has cleared the running flag, the listening loop sees *)
(* it at its next evaluation of the loop condition and returns; it ends    *)
(* provided the listen call in flight returns.  The command workers        *)
(* already dispatched are neither cancelled nor awaited by stop().         *)
(***************************************************************************)
C22_Step ==
    /\ \A t \in Threads :
           loops[t] = "check" /\ ~running /\ loops'[t] # "check" =>
               loops'[t] \in {"done", "interrupted"}
    /\ \A c \in Callers :
           callers[c].pc \in {"stop", "stop_set", "stop_join"} /\ Steps(c) =>
               workers' = workers

\* A loop that is going round while the flag is clear ends, unless the flag
\* is set again before the loop has looked.
C22_LoopEnds ==
    \A t \in Threads :
        (loops[t] \in Alive /\ ~running) ~> (loops[t] \notin Alive \/ running)

C22_StopEndsLoop == [][C22_Step]_vars /\ C22_LoopEnds

\* stop() has returned, the background loop has returned, and a command
\* worker dispatched before is still at work.
C22_Witness ==
    /\ ~running
    /\ \A c \in DOMAIN callers : callers[c].pc = "idle"
    /\ \E t \in DOMAIN loops : loops[t] = "done"
    /\ \E w \in DOMAIN workers : workers[w] = "processing"

(***************************************************************************)
(* C27: for one orchestrator at most one listening loop executes at any    *)
(* time, under every interleaving of start, start_async and stop calls,    *)
(* also when stop() returns after its join timeout while the old loop is   *)
(* still blocked in a listen call and a new start_async follows.           *)
(***************************************************************************)
C27_AtMostOneLoop ==
    Cardinality({t \in DOMAIN loops : loops[t] \in Alive}) <= 1

(***************************************************************************)
(* C28: once stop() has returned and until the orchestrator is started     *)
(* again, no new command worker is started, whether the loop runs in the   *)
(* caller's thread or in a background thread and whatever the listen call  *)
(* returns afterwards.                                                     *)
(***************************************************************************)
InsideStop ==
    \E c \in Callers : callers[c].pc \in {"stop_set", "stop_join"}

C28_Step == StartedNext # Started => running \/ InsideStop

C28_NoWorkerAfterStop == [][C28_Step]_vars

(***************************************************************************)
(* C30: after any sequence of register and unregister calls list_commands  *)
(* returns exactly one entry per registered handler, so the number of its  *)
(* entries equals the length of the handler sequence (the                  *)
(* registered_commands count of get_status), also when two registered      *)
(* handlers are of the same class or one handler is registered twice.      *)
(***************************************************************************)
C30_OneEntryPerHandler ==
    last.op = "list_commands" =>
        Cardinality(DOMAIN last.result.value) = Len(commands)

(***************************************************************************)
(* The registry the factory builds (core/factory.py) and the execute       *)
(* methods of the five built-in handlers.                                  *)
(***************************************************************************)

\* How many fragments an utterance is made of.
MaxParts == 2

S_5_menit == <<"5", " ", "m", "e", "n", "i", "t">>
S_Timer == <<"T", "i", "m", "e", "r">>
S_padded_Peter == <<" ", "P", "e", "t", "e", "r", " ">>

\* The exception class each handler's execute raises.
HandlerError(h) ==
    CASE ClassName(h) = "SystemControlCommand" -> "SystemCommandError"
      [] ClassName(h) = "ApplicationCommand" -> "ApplicationLaunchError"
      [] ClassName(h) = "SmartDeviceCommand" -> "DeviceConnectionError"
      [] OTHER -> "CommandExecutionError"

\* SystemControlCommand.execute: the if / elif / elif / else.
SystemBranch(command_lower) ==
    IF Contains(command_lower, S_matikan_komputer)
       /\ ~Contains(command_lower, S_timer)
    THEN "shutdown"
    ELSE IF Contains(command_lower, S_tutup_semua_aplikasi)
    THEN "close_all"
    ELSE IF /\ Contains(command_lower, S_timer)
            /\ Contains(command_lower, S_menit)
            /\ Contains(command_lower, S_matikan_komputer)
    THEN "schedule"
    ELSE "unknown"

\* BrowserCommand.execute: the if / elif / elif / else.
BrowserBranch(command_lower) ==
    IF Contains(command_lower, S_buka_youtube) THEN "youtube"
    ELSE IF Contains(command_lower, S_cari_di_google) THEN "search"
    ELSE IF Contains(command_lower, S_buka_website) THEN "website"
    ELSE "unknown"

\* ApplicationCommand.execute: re.search(r'jalankan aplikasi (.+)', ...) and
\* the name it yields.
ApplicationBranch(command_lower) ==
    IF Strip(SearchGroup(command_lower, S_jalankan_aplikasi)) = <<>>
    THEN "no_name"
    ELSE "launch"

\* SmartDeviceCommand.execute with tinytuya imported.
DeviceBranch(command_lower) ==
    IF Contains(command_lower, S_nyalakan_lampu)
       \/ Contains(command_lower, S_hidupkan_lampu)
    THEN "on"
    ELSE IF Contains(command_lower, S_matikan_lampu)
            \/ Contains(command_lower, S_tutup_lampu)
    THEN "off"
    ELSE "unknown"

\* UtilityCommand.execute
UtilityBranch(command_lower) ==
    IF \/ Contains(command_lower, S_ambil_screenshot)
       \/ Contains(command_lower, S_screenshot)
       \/ Contains(command_lower, S_tangkap_layar)
    THEN "screenshot"
    ELSE "unknown"

\* The branch of handler.execute(command) that the text falls into;
\* "unknown" is the else branch that raises the Unknown ... command error.
Branch(h, command) ==
    With(Lower(command), LAMBDA command_lower :
        CASE h = "System" -> SystemBranch(command_lower)
          [] h = "Browser" -> BrowserBranch(command_lower)
          [] h = "App" -> ApplicationBranch(command_lower)
          [] h = "Device" -> DeviceBranch(command_lower)
          [] h = "DeviceNoTuya" -> "no_tinytuya"
          [] h = "Utility" -> UtilityBranch(command_lower)
          [] OTHER -> "unknown")

\* handler.execute(command): the branch's work is done outside the program
\* (processes, browser, devices, screen), so it either returns the branch's
\* message or raises the handler's error; the branches that raise by
\* themselves do so whatever the outside does.
HandlerExecute(h, command, works) ==
    With(Branch(h, command), LAMBDA branch :
        IF works /\ branch \notin {"unknown", "no_name", "no_tinytuya"}
        THEN Returned(branch)
        ELSE [kind |-> "raise", type |-> HandlerError(h),
              message |-> HandlerMessage(HandlerError(h))])

\* SmartDeviceCommand with or without the tinytuya module at hand.
DeviceHandler(tinytuya) == IF tinytuya THEN "Device" ELSE "DeviceNoTuya"

\* The five register calls in another order: the utility handler first.
create_command_registry_utility_first(tinytuya) ==
    register(register(register(register(register(<<>>,
        "Utility"), "System"), "Browser"), "App"), DeviceHandler(tinytuya))

\* AssistantFactory._create_command_registry: the five register calls.
create_command_registry(tinytuya) ==
    register(register(register(register(register(<<>>,
        "System"), "Browser"), "App"), DeviceHandler(tinytuya)), "Utility")

\* settings.wake_word values: AssistantSettings.__post_init__ looks at the
\* timeouts and the log level only, so every string passes.
FactoryWakeWords == {S_peter, <<>>, S_padded_Peter}

Fragments ==
    {S_matikan_komputer, S_tutup_semua_aplikasi, S_timer, S_5_menit,
     S_buka_youtube, S_cari_di_google, S_buka_website, S_jalankan_aplikasi,
     S_nyalakan_lampu, S_matikan_lampu, S_screenshot, S_notepad, S_Timer}

RECURSIVE Joined(_)
Joined(k) ==
    IF k <= 1
    THEN Fragments
    ELSE {a \o S_space \o b : a \in Joined(k - 1), b \in Fragments}

\* What is said after the wake word.
Phrases == UNION {Joined(k) : k \in 1..MaxParts}

FactoryTexts ==
    {prefix \o phrase : prefix \in {<<>>, S_peter \o S_space}, phrase \in Phrases}

\* The registry as the factory hands it to the orchestrator.
InitFactory ==
    /\ \E arg \in FactoryWakeWords : wake_word = InitWakeWord(arg)
    /\ \E tinytuya \in BOOLEAN : commands = create_command_registry(tinytuya)
    /\ prev_commands = <<>>
    /\ last = NoCall
    /\ NoConfig
    /\ NoBrowser
    /\ NoShutdownTimer
    /\ NoAssistant

\* registry.execute_command(t) with the built-in handlers' execute.
FactoryExecute(t) ==
    /\ Idle
    /\ \E works \in BOOLEAN :
       \E found \in {get_handler(commands, wake_word, t).handler} :
       \E outcome \in {IF found = None
                       THEN NotCalled
                       ELSE HandlerExecute(found,
                                remove_wake_word(wake_word, t), works)} :
       \E run \in {execute_command(commands, wake_word, t, None, outcome)} :
           last' = Call("execute_command", None, t, None, run.result, run.calls)
    /\ prev_commands' = commands
    /\ UNCHANGED <<wake_word, commands, elsewhere>>

\* One handler asked directly: can_handle(t), and the branch execute(t) takes.
AskHandler(h, t) ==
    /\ Idle
    /\ h \in {commands[i] : i \in 1..Len(commands)}
    /\ last' = Call("ask_handler", h, t, None,
                    [kind |-> "asked", accepted |-> can_handle(h, t),
                     branch |-> Branch(h, t)], <<>>)
    /\ prev_commands' = commands
    /\ UNCHANGED <<wake_word, commands, elsewhere>>

NextFactory ==
    \/ \E t \in FactoryTexts : FactoryExecute(t)
    \/ \E h \in {"System", "Browser", "App", "Device", "DeviceNoTuya", "Utility"} :
           \E t \in Phrases : AskHandler(h, t)
    \/ Consume

SpecFactory == InitFactory /\ [][NextFactory]_vars

(***************************************************************************)
(* Vocabulary of the factory's claims.                                     *)
(***************************************************************************)
FixedOrder ==
    <<"SystemControlCommand", "BrowserCommand", "ApplicationCommand",
      "SmartDeviceCommand", "UtilityCommand">>

\* The handlers execute_command called execute on.
ExecutedHandlers ==
    {last.calls[i].handler :
        i \in {j \in 1..Len(last.calls) : last.calls[j].method = "execute"}}

\* The places in the registry whose handler takes the text said after the
\* wake word.
AcceptingPlaces ==
    {i \in 1..Len(commands) :
        can_handle(commands[i], remove_wake_word(wake_word, last.command))}

(***************************************************************************)
(* C23: the registry built by the factory holds exactly the five handlers  *)
(* in the fixed order system control, browser, application launcher, smart *)
(* device, utility, so for any utterance accepted by more than one of them *)
(* the earliest in that order is the one dispatched.                       *)
(***************************************************************************)
C23_FixedOrder ==
    /\ [i \in 1..Len(commands) |-> ClassName(commands[i])] = FixedOrder
    /\ last.op = "execute_command" /\ ExecutedHandlers # {} =>
           \E i \in AcceptingPlaces :
               /\ ExecutedHandlers = {commands[i]}
               /\ \A j \in AcceptingPlaces : i <= j

\* An utterance that two handlers accept has been dispatched.
C23_Witness ==
    /\ last.op = "execute_command"
    /\ ExecutedHandlers # {}
    /\ Cardinality(AcceptingPlaces) >= 2

(***************************************************************************)
(* C24: in every reachable registry state the configured wake word is      *)
(* non-empty, lowercased and free of surrounding whitespace, for every     *)
(* wake-word string the registry can be constructed with, including the    *)
(* wake word of any Settings Record that passes validation.                *)
(***************************************************************************)
C24_WakeWordNormalised ==
    /\ wake_word # <<>>
    /\ Folded(wake_word) = wake_word
    /\ Trimmed(wake_word) = wake_word

(***************************************************************************)
(* C29: for every built-in handler and every text, if can_handle(text) is  *)
(* true then execute(text) recognises the text as one of its commands and  *)
(* never fails with that handler's unknown-command error; in particular    *)
(* every text the system-control handler accepts falls into one of its     *)
(* three execute branches.                                                 *)
(***************************************************************************)
C29_AcceptedIsRecognised ==
    last.op = "ask_handler" /\ last.result.accepted =>
        last.result.branch # "unknown"

(***************************************************************************)
(* The deferred shutdown of SystemControlCommand                           *)
(* (commands/system_commands.py).  One handler object is registered; every *)
(* heard command runs on a command thread of its own (assistant.py,        *)
(* lines 97-102), so its methods run on several threads at once.  Nothing  *)
(* in the handler holds a lock: each read and each write of                *)
(* self.shutdown_timer is a step of its own.                               *)
(***************************************************************************)
MaxSchedulers == 2

MaxTimers == 2

\* The command threads that are inside the handler.
Schedulers == 1 .. MaxSchedulers

\* The minutes a timer command names.
Minutes == {0, 5}

\* threading.Timer(seconds, self._delayed_shutdown): made, not started.
NewTimer == [started |-> FALSE, cancelled |-> FALSE, fired |-> FALSE]

\* A command thread that is not inside a timer method, and how its last
\* call ended.
Resting(result) == [pc |-> "rest", result |-> result]

At(pc) == [pc |-> pc, result |-> "running"]

\* SystemControlCommand(): no timer.
InitTimer ==
    /\ NoRegistry
    /\ NoConfig
    /\ NoBrowser
    /\ NoAssistant
    /\ shutdown_timer = NoTimer
    /\ timers = <<>>
    /\ schedulers = [w \in Schedulers |-> Resting("none")]

outside_timer == <<registry_vars, config_vars, browser_vars, assistant_vars>>

\* The threads that will still make a Timer.
Making == {w \in Schedulers : schedulers[w].pc \in {"test", "cancel", "assign"}}

\* _schedule_shutdown, lines 110-118: the minutes are taken from the
\* command; a duration that is not positive raises before the timer is
\* touched.
ScheduleParse(w, minutes) ==
    /\ schedulers[w].pc = "rest"
    /\ Len(timers) + Cardinality(Making) < MaxTimers
    /\ schedulers' = [schedulers EXCEPT ![w] =
           IF minutes <= 0 THEN Resting("SystemCommandError") ELSE At("test")]
    /\ UNCHANGED <<shutdown_timer, timers, outside_timer>>

\* line 121: if self.shutdown_timer
ScheduleTest(w) ==
    /\ schedulers[w].pc = "test"
    /\ schedulers' = [schedulers EXCEPT ![w] =
           IF shutdown_timer # NoTimer THEN At("cancel") ELSE At("assign")]
    /\ UNCHANGED <<shutdown_timer, timers, outside_timer>>

\* line 122: self.shutdown_timer.cancel() reads the attribute again; on None
\* the AttributeError leaves as SystemCommandError (line 135).
ScheduleCancel(w) ==
    /\ schedulers[w].pc = "cancel"
    /\ IF shutdown_timer = NoTimer
       THEN /\ schedulers' = [schedulers EXCEPT ![w] = Resting("SystemCommandError")]
            /\ UNCHANGED timers
       ELSE /\ timers' = [timers EXCEPT ![shutdown_timer].cancelled = TRUE]
            /\ schedulers' = [schedulers EXCEPT ![w] = At("assign")]
    /\ UNCHANGED <<shutdown_timer, outside_timer>>

\* line 128: self.shutdown_timer = threading.Timer(...)
ScheduleAssign(w) ==
    /\ schedulers[w].pc = "assign"
    /\ timers' = Append(timers, NewTimer)
    /\ shutdown_timer' = Len(timers) + 1
    /\ schedulers' = [schedulers EXCEPT ![w] = At("start")]
    /\ UNCHANGED outside_timer

\* line 129: self.shutdown_timer.start() reads the attribute again, and
\* starts whatever Timer is there now; Thread.start on a started thread is
\* a RuntimeError, and both errors leave as SystemCommandError.  A Timer
\* that was cancelled before it started never runs its function.
ScheduleStart(w) ==
    /\ schedulers[w].pc = "start"
    /\ IF shutdown_timer = NoTimer \/ timers[shutdown_timer].started
       THEN /\ schedulers' = [schedulers EXCEPT ![w] = Resting("SystemCommandError")]
            /\ UNCHANGED timers
       ELSE /\ timers' = [timers EXCEPT ![shutdown_timer].started = TRUE]
            /\ schedulers' = [schedulers EXCEPT ![w] = Resting("scheduled")]
    /\ UNCHANGED <<shutdown_timer, outside_timer>>

\* cancel_shutdown_timer, line 148: if self.shutdown_timer
CancelTest(w) ==
    /\ schedulers[w].pc = "rest"
    /\ schedulers' = [schedulers EXCEPT ![w] =
           IF shutdown_timer # NoTimer THEN At("cancel_cancel") ELSE Resting("none")]
    /\ UNCHANGED <<shutdown_timer, timers, outside_timer>>

\* line 149: self.shutdown_timer.cancel(); nothing catches the
\* AttributeError here.
CancelCancel(w) ==
    /\ schedulers[w].pc = "cancel_cancel"
    /\ IF shutdown_timer = NoTimer
       THEN /\ schedulers' = [schedulers EXCEPT ![w] = Resting("AttributeError")]
            /\ UNCHANGED timers
       ELSE /\ timers' = [timers EXCEPT ![shutdown_timer].cancelled = TRUE]
            /\ schedulers' = [schedulers EXCEPT ![w] = At("cancel_clear")]
    /\ UNCHANGED <<shutdown_timer, outside_timer>>

\* line 150: self.shutdown_timer = None
CancelClear(w) ==
    /\ schedulers[w].pc = "cancel_clear"
    /\ shutdown_timer' = NoTimer
    /\ schedulers' = [schedulers EXCEPT ![w] = Resting("cancelled")]
    /\ UNCHANGED <<timers, outside_timer>>

\* The interval of a started Timer that was not cancelled runs out: its
\* thread calls _delayed_shutdown.
TimerFires(t) ==
    /\ t \in DOMAIN timers
    /\ timers[t].started
    /\ ~timers[t].cancelled
    /\ ~timers[t].fired
    /\ timers' = [timers EXCEPT ![t].fired = TRUE]
    /\ UNCHANGED <<shutdown_timer, schedulers, outside_timer>>

NextTimer ==
    \/ \E w \in Schedulers, minutes \in Minutes : ScheduleParse(w, minutes)
    \/ \E w \in Schedulers : ScheduleTest(w)
    \/ \E w \in Schedulers : ScheduleCancel(w)
    \/ \E w \in Schedulers : ScheduleAssign(w)
    \/ \E w \in Schedulers : ScheduleStart(w)
    \/ \E w \in Schedulers : CancelTest(w)
    \/ \E w \in Schedulers : CancelCancel(w)
    \/ \E w \in Schedulers : CancelClear(w)
    \/ \E t \in 1 .. MaxTimers : TimerFires(t)

SpecTimer == InitTimer /\ [][NextTimer]_vars

\* The timers that are started, not cancelled and not fired.
PendingTimers ==
    {t \in DOMAIN timers :
         timers[t].started /\ ~timers[t].cancelled /\ ~timers[t].fired}

(***************************************************************************)
(* C26: the system-control handler's pending-shutdown state is safe across *)
(* workers: at any time at most one shutdown timer is pending (started,    *)
(* not cancelled, not fired), because scheduling a new timed shutdown      *)
(* cancels the previously pending one, also when two scheduling commands   *)
(* execute concurrently on different command workers.  (Two threads that   *)
(* both pass line 121 before either assigns each start a Timer of their    *)
(* own.)                                                                   *)
(***************************************************************************)
C26_AtMostOnePending == Cardinality(PendingTimers) <= 1

====
